---- MODULE Spec2Model ----
(***************************************************************************)
(* Verification model of Source/ComputationNetworkLib/ComputationNode.cpp  *)
(* (CNTK): the lazy gradient initialisation and the backward traversal of  *)
(* ComputationNode<ElemType>::Backprop, and the packed -> unpacked         *)
(* transformation ComputationNode<ElemType>::Unpack.                       *)
(***************************************************************************)
EXTENDS Integers, Sequences, FiniteSets, TLC

(***************************************************************************)
(* Bounds of the model.                                                    *)
(***************************************************************************)
\* number of nodes of the computation graph
NumNodes == 3
\* longest input list of a node
MaxInputs == 2
\* number of Backprop calls the scheduler makes on one node (time steps)
MaxSteps == 1

\* most parallel sequence slots of a minibatch layout
MaxSlots == 2
\* most time steps of a minibatch layout
MaxTime == 2

Nodes == 1..NumNodes
\* the null node pointer
NoNode == 0

\* what a freshly resized gradient buffer may hold before it is reset
StaleValues == {0, 7}

VARIABLES
    \* ---- the graph (fixed during a backward pass) ----
    inputs,             \* m_inputs of every node
    needsGradient,      \* m_needsGradient of every node
    isPartOfLoop,       \* IsPartOfLoop() of every node
    optimizes,          \* optimizes[p]: inputs c with p->ImplementsGradientOptimization(c) != None
    shouldOptimize,     \* Globals::ShouldOptimizeGradientAccumulation()
    \* ---- gradient state of one backward pass ----
    gradInitBy,         \* m_gradientInitializedBy of every node (NoNode = nullptr)
    gradBuf,            \* the node whose storage Gradient() of a node refers to
    gradVal,            \* contents of the gradient storage owned by each node
    writers,            \* history: the nodes that invoked BackpropTo into each node
    zeroFills,          \* history: how often each node's buffer was zero-filled
    \* ---- the scheduler and the last Backprop call ----
    cur,                \* node being visited (reverse topological order), 0 = pass over
    steps,              \* Backprop calls made on cur so far
    err,                \* "none" or the error that aborted the pass
    call,               \* arguments and entry state of the last Backprop call
    log,                \* events of the last Backprop call, in program order
    \* ---- one call of Unpack ----
    uArgs,              \* the arguments of the call
    uOut,               \* the returned tensor view (<<>> before the call)
    \* ---- one call of BroadcastToPacked ----
    bArgs,              \* the arguments of the call
    bIdx,               \* gatherIndicesVector
    bClaimed,           \* iterations of the parallel loop handed to a thread
    bThreads,           \* per thread: the entries its iteration has yet to write
    bWrote,             \* history: the iterations that wrote each entry
    bOut,               \* broadcastTo after the gather (<<>> before)
    \* ---- one call of a Validate...() subroutine on a node ----
    vNode,              \* the node: its inputs, sample shape, layout, outcome
    vCall,              \* the subroutine called and its arguments (<<>> before)
    \* ---- one tensor-slice query on a node ----
    sNode,              \* the node: its sample shape and layout
    sFr,                \* the FrameRange of the query
    sOut,               \* the query made and what it returned (<<>> before)
    \* ---- the end of a forward or backward step of a node ----
    tNode,              \* the node: environment, layout, value, inputs with gradients
    tOut,               \* the hook called, its outcome, the node before it (<<>> before)
    \* ---- a WriteFormattingOptions record and the stream it is saved to ----
    fOptions,           \* the record that is saved
    fStream,            \* the file: what has been written to it
    fLoaded             \* the record Load has filled in (<<>> before)

gradVars == <<inputs, needsGradient, isPartOfLoop, optimizes, shouldOptimize,
              gradInitBy, gradBuf, gradVal, writers, zeroFills,
              cur, steps, err, call, log>>

unpackVars == <<uArgs, uOut>>

broadcastVars == <<bArgs, bIdx, bClaimed, bThreads, bWrote, bOut>>

validateVars == <<vNode, vCall>>

sliceVars == <<sNode, sFr, sOut>>

trackVars == <<tNode, tOut>>

formatVars == <<fOptions, fStream, fLoaded>>

auxVars == <<sliceVars, trackVars, formatVars>>

vars == <<gradVars, unpackVars, broadcastVars, validateVars, auxVars>>

Range(s) == {s[i] : i \in 1..Len(s)}

\* std::count_if(inputs.begin(), inputs.end(), [this](p) { return &*p == this; })
CountIf(s, n) == Cardinality({i \in 1..Len(s) : s[i] = n})

\* the frame ranges a caller passes: the whole batch or one time step
AllFrames == "all"
OneStep == "step"
FrameRanges == {AllFrames, OneStep}

\* fr.IsAllFrames()
IsAllFrames(fr) == fr = AllFrames

(***************************************************************************)
(* The gradient state the operations transform.                            *)
(***************************************************************************)
GradNow ==
    [by |-> gradInitBy, buf |-> gradBuf, val |-> gradVal,
     writers |-> writers, zeroFills |-> zeroFills, err |-> "none", log |-> <<>>]

\* the gradient-buffer state of the data model: Uninitialized, Zeroed, AliasedToParent
GradStateOf(by, n) ==
    IF ~needsGradient[n] THEN "NoGradient"
    ELSE IF by[n] = NoNode THEN "Uninitialized"
    ELSE IF by[n] = n THEN "Zeroed"
    ELSE "AliasedToParent"

Event(op, n, b, i, res, g) ==
    [op |-> op, node |-> n, by |-> b, idx |-> i, res |-> res,
     self |-> IF b = NoNode THEN "none" ELSE GradStateOf(g.by, b),
     target |-> GradStateOf(g.by, n)]

\* LogicError(...): the call is abandoned, the state reached so far stays
LogicError(g, n, b, i) ==
    [g EXCEPT !.err = "LogicError",
              !.log = Append(g.log, Event("LogicError", n, b, i, "raise", g))]

\* gradientInitializedBy->ImplementsGradientOptimization(this) != ParentGradientOptimization::None
ImplementsGradientOptimization(p, n) == n \in optimizes[p]

\* UpdateDataSize(Gradient(), ParentGradientReused()): the buffer becomes a
\* reference to the storage the initializer's gradient lives in
ReuseParentGradient(g, n, b) == [g EXCEPT !.buf[n] = g.buf[b]]

\* UpdateDataSize(Gradient()): the node's own storage, resized
UpdateDataSize(g, n) == [g EXCEPT !.buf[n] = n]

\* ResetGradient(val): fill the buffer and mark the gradient as initialised
ResetGradient(g, n, v) ==
    [g EXCEPT !.val[g.buf[n]] = v, !.by[n] = n, !.zeroFills[n] = @ + 1]

\* mutation: the initializer's input list is not examined
MayReuseAnyCount(n, b) ==
    /\ shouldOptimize
    /\ ~isPartOfLoop[n]
    /\ ImplementsGradientOptimization(b, n)

\* the test that selects the aliasing branch of LazyZeroGradient
MayReuse(n, b) ==
    /\ shouldOptimize
    /\ ~isPartOfLoop[n]
    /\ ImplementsGradientOptimization(b, n)
    /\ CountIf(inputs[b], n) = 1

\* mutation: an initialised gradient is initialised again
LazyZeroGradientAgain(g, n, b, i) ==
    IF ~needsGradient[n] THEN LogicError(g, n, b, i)
    ELSE IF b = NoNode THEN LogicError(g, n, b, i)
    ELSE IF MayReuse(n, b)
        THEN LET g1 == ReuseParentGradient(g, n, b)
                 g2 == [g1 EXCEPT !.by[n] = b]
             IN  [g2 EXCEPT !.log = Append(g.log, Event("LazyZeroGradient", n, b, i, "alias", g))]
        ELSE LET g1 == ResetGradient(UpdateDataSize(g, n), n, 0)
             IN  [g1 EXCEPT !.log = Append(g.log, Event("LazyZeroGradient", n, b, i, "zero", g))]

\* ComputationNode<ElemType>::LazyZeroGradient(gradientInitializedBy), called
\* for input position i of b (i = 0: the node's call on itself)
LazyZeroGradient(g, n, b, i) ==
    IF ~needsGradient[n] THEN LogicError(g, n, b, i)
    ELSE IF b = NoNode THEN LogicError(g, n, b, i)
    ELSE IF g.by[n] # NoNode
        THEN [g EXCEPT !.log = Append(g.log, Event("LazyZeroGradient", n, b, i, "noop", g))]
    ELSE IF MayReuse(n, b)
        THEN LET g1 == ReuseParentGradient(g, n, b)
                 g2 == [g1 EXCEPT !.by[n] = b]
             IN  [g2 EXCEPT !.log = Append(g.log, Event("LazyZeroGradient", n, b, i, "alias", g))]
        ELSE LET g1 == ResetGradient(UpdateDataSize(g, n), n, 0)
             IN  [g1 EXCEPT !.log = Append(g.log, Event("LazyZeroGradient", n, b, i, "zero", g))]

\* child->VerifyGradientOptimization(this)
VerifyGradientOptimization(g, n, b) == g

\* the contribution the operator's backward formula computes for input i
Contribution(p, i) == i

\* BackpropTo(i, fr): the operator adds its contribution to the input's gradient
BackpropTo(g, p, i, fr) ==
    LET c == inputs[p][i]
    IN  [g EXCEPT !.val[g.buf[c]] = @ + Contribution(p, i),
                  !.writers[c] = @ \cup {p},
                  !.log = Append(g.log, Event("BackpropTo", c, p, i, fr, g))]

\* mutation: the two partition flags are exchanged
SelectedExchanged(p, i, childrenInThisLoop, childrenInOuterLoop) ==
    LET child == inputs[p][i]
    IN  /\ needsGradient[child]
        /\ \/ childrenInOuterLoop /\ isPartOfLoop[child] = isPartOfLoop[p]
           \/ childrenInThisLoop /\ isPartOfLoop[child] # isPartOfLoop[p]

\* the condition under which Backprop propagates into input i
Selected(p, i, childrenInThisLoop, childrenInOuterLoop) ==
    LET child == inputs[p][i]
    IN  /\ needsGradient[child]
        /\ \/ childrenInThisLoop /\ isPartOfLoop[child] = isPartOfLoop[p]
           \/ childrenInOuterLoop /\ isPartOfLoop[child] # isPartOfLoop[p]

\* mutation: the node's own flag is looked at after the input's gradient is initialised
BackpropInputFlagCheckedLate(g, p, i, fr, childrenInThisLoop, childrenInOuterLoop) ==
    LET child == inputs[p][i]
    IN  IF ~Selected(p, i, childrenInThisLoop, childrenInOuterLoop) THEN g
        ELSE LET g1 == LazyZeroGradient(g, child, p, i)
             IN  IF g1.err # "none" THEN g1
                 ELSE IF ~needsGradient[p] THEN LogicError(g1, child, p, i)
                 ELSE IF isPartOfLoop[p] /\ ~isPartOfLoop[child] /\ ~IsAllFrames(fr)
                     THEN LogicError(g1, child, p, i)
                 ELSE BackpropTo(VerifyGradientOptimization(g1, child, p), p, i, fr)

\* mutation: propagation from a loop into a node outside is not rejected
BackpropInputUnchecked(g, p, i, fr, childrenInThisLoop, childrenInOuterLoop) ==
    LET child == inputs[p][i]
    IN  IF ~Selected(p, i, childrenInThisLoop, childrenInOuterLoop) THEN g
        ELSE IF ~needsGradient[p] THEN LogicError(g, child, p, i)
        ELSE LET g1 == LazyZeroGradient(g, child, p, i)
             IN  IF g1.err # "none" THEN g1
                 ELSE BackpropTo(VerifyGradientOptimization(g1, child, p), p, i, fr)

\* the body of Backprop's loop for input i
BackpropInput(g, p, i, fr, childrenInThisLoop, childrenInOuterLoop) ==
    LET child == inputs[p][i]
    IN  IF ~Selected(p, i, childrenInThisLoop, childrenInOuterLoop) THEN g
        ELSE IF ~needsGradient[p] THEN LogicError(g, child, p, i)
        ELSE LET g1 == LazyZeroGradient(g, child, p, i)
             IN  IF g1.err # "none" THEN g1
                 ELSE IF isPartOfLoop[p] /\ ~isPartOfLoop[child] /\ ~IsAllFrames(fr)
                     THEN LogicError(g1, child, p, i)
                 ELSE BackpropTo(VerifyGradientOptimization(g1, child, p), p, i, fr)

RECURSIVE BackpropInputs(_, _, _, _, _, _)
\* for (size_t i = 0; i < m_inputs.size(); i++) ..., left once an error is raised
BackpropInputs(g, p, i, fr, childrenInThisLoop, childrenInOuterLoop) ==
    IF i > Len(inputs[p]) \/ g.err # "none" THEN g
    ELSE BackpropInputs(BackpropInput(g, p, i, fr, childrenInThisLoop, childrenInOuterLoop),
                        p, i + 1, fr, childrenInThisLoop, childrenInOuterLoop)

\* mutation: a whole-batch frame range is accepted inside a loop
BackpropResultAnyRange(g, p, fr, childrenInThisLoop, childrenInOuterLoop) ==
    LET g1 == IF needsGradient[p] THEN LazyZeroGradient(g, p, p, 0) ELSE g
    IN  IF g1.err # "none" THEN g1
        ELSE BackpropInputs(g1, p, 1, fr, childrenInThisLoop, childrenInOuterLoop)

\* mutation: the node's own gradient is not initialised first
BackpropResultNoSelfInit(g, p, fr, childrenInThisLoop, childrenInOuterLoop) ==
    IF IsAllFrames(fr) /\ isPartOfLoop[p] /\ childrenInThisLoop
        THEN LogicError(g, p, p, 0)
    ELSE BackpropInputs(g, p, 1, fr, childrenInThisLoop, childrenInOuterLoop)

\* ComputationNode<ElemType>::Backprop(fr, childrenInThisLoop, childrenInOuterLoop)
BackpropResult(g, p, fr, childrenInThisLoop, childrenInOuterLoop) ==
    LET g1 == IF needsGradient[p] THEN LazyZeroGradient(g, p, p, 0) ELSE g
    IN  IF g1.err # "none" THEN g1
        ELSE IF IsAllFrames(fr) /\ isPartOfLoop[p] /\ childrenInThisLoop
            THEN LogicError(g1, p, p, 0)
        ELSE BackpropInputs(g1, p, 1, fr, childrenInThisLoop, childrenInOuterLoop)

(***************************************************************************)
(* Minibatch layouts.  A layout interleaves sequences into the columns of  *)
(* one matrix: the packed column of slot s at time t is t * S + s.         *)
(***************************************************************************)
\* the sequence id of a gap entry of the sequence table
GAP_SEQUENCE_ID == -1

\* layout == nullptr
NoLayout == [S |-> 0, T |-> 0, seqs |-> <<>>]

GetNumParallelSequences(layout) == layout.S
GetNumTimeSteps(layout) == layout.T
GetNumCols(layout) == layout.S * layout.T
GetAllSequences(layout) == layout.seqs

\* the number of sequences of the table that are not gaps
GetNumSequences(layout) ==
    Cardinality({q \in 1..Len(layout.seqs) : layout.seqs[q].seqId # GAP_SEQUENCE_ID})

\* the positions of the table that hold real sequences
RealPositions(layout) ==
    {q \in 1..Len(layout.seqs) : layout.seqs[q].seqId # GAP_SEQUENCE_ID}

Max2(a, b) == IF a > b THEN a ELSE b
Min2(a, b) == IF a < b THEN a ELSE b

\* the cell (s, t) belongs to the table entry info
Covers(info, s, t) == info.s = s /\ info.tBegin <= t /\ t < info.tEnd

\* the packed column (s, t) is covered by no real sequence
IsGapCell(layout, s, t) ==
    \A q \in 1..Len(layout.seqs) :
        layout.seqs[q].seqId # GAP_SEQUENCE_ID => ~Covers(layout.seqs[q], s, t)

\* HasGaps(): some packed column belongs to no real sequence
HasGaps(layout) ==
    \E s \in 0..(layout.S - 1), t \in 0..(layout.T - 1) : IsGapCell(layout, s, t)

\* MaskMissingColumnsTo(data, layout, FrameRange(layout), val): the columns
\* of gap cells are set to val
MaskMissingColumnsTo(data, layout, val) ==
    [k \in DOMAIN data |->
        IF IsGapCell(layout, k % layout.S, k \div layout.S) THEN val ELSE data[k]]

(***************************************************************************)
(* ComputationNode<ElemType>::Unpack                                       *)
(***************************************************************************)
DENSE == "DENSE"
SPARSE == "SPARSE"

\* mutation: the strides of the two memory orders are exchanged
TargetIdxStridesExchanged(batchMajor, i, j, numSequences, maxNumTimeSteps) ==
    IF batchMajor THEN (j * maxNumTimeSteps) + i ELSE (i * numSequences) + j

\* the destination column of time step j of the i-th sequence
TargetIdx(batchMajor, i, j, numSequences, maxNumTimeSteps) ==
    IF batchMajor THEN (j * numSequences) + i ELSE (i * maxNumTimeSteps) + j

RECURSIVE ScatterTimeSteps(_, _, _, _, _, _)
\* for (size_t j = 0; j < maxNumTimeSteps; ++j) of one sequence
ScatterTimeSteps(st, layout, info, batchMajor, hasPad, j) ==
    LET maxNumTimeSteps == GetNumTimeSteps(layout)
        numSequences == GetNumSequences(layout)
        currentSequenceBeginIdx == Max2(0, info.tBegin)
        currentSequenceEndIdx == Min2(maxNumTimeSteps, info.tEnd)
        currentSequenceLength == currentSequenceEndIdx - currentSequenceBeginIdx
        targetIdx == TargetIdx(batchMajor, st.i, j, numSequences, maxNumTimeSteps)
        col == ((currentSequenceBeginIdx + j) * GetNumParallelSequences(layout)) + info.s
    IN  IF j >= maxNumTimeSteps THEN st
        ELSE ScatterTimeSteps(
                 IF j < currentSequenceLength
                     THEN [st EXCEPT !.idx[col] = targetIdx]
                     ELSE IF hasPad THEN [st EXCEPT !.mask[targetIdx] = 0] ELSE st,
                 layout, info, batchMajor, hasPad, j + 1)

RECURSIVE ScatterSequences(_, _, _, _, _)
\* for (layoutSequenceIdx = 0; layoutSequenceIdx < numLayoutSequences; ++layoutSequenceIdx)
ScatterSequences(st, layout, batchMajor, hasPad, q) ==
    IF q > Len(layout.seqs) THEN st
    ELSE LET sequenceInfo == layout.seqs[q]
         IN  IF sequenceInfo.seqId # GAP_SEQUENCE_ID
                 THEN LET st1 == ScatterTimeSteps(st, layout, sequenceInfo, batchMajor, hasPad, 0)
                      IN  ScatterSequences([st1 EXCEPT !.i = @ + 1], layout, batchMajor, hasPad, q + 1)
                 ELSE ScatterSequences(st, layout, batchMajor, hasPad, q + 1)

\* mutation: the validity mask has one entry per packed column
ScatterIndicesMaskPerPackedColumn(layout, batchMajor, hasPad) ==
    [idx |-> [k \in 0..(GetNumCols(layout) - 1) |-> -1],
     mask |-> [c \in 0..(GetNumCols(layout) - 1) |-> 1],
     i |-> 0]

\* scatterIndicesVector (all -1) and columnsValidityMask (all 1) as the loops leave them
ScatterIndices(layout, batchMajor, hasPad) ==
    ScatterSequences(
        [idx |-> [k \in 0..(GetNumCols(layout) - 1) |-> -1],
         mask |-> [c \in 0..((GetNumSequences(layout) * GetNumTimeSteps(layout)) - 1) |-> 1],
         i |-> 0],
        layout, batchMajor, hasPad, 1)

\* target.DoScatterColumnsOf(beta = 0, idx, source, alpha = 1): column k of the
\* source goes to column idx[k]; a dense target is filled with 0 first, a
\* sparse target keeps what it held
DoScatterColumnsOf(target, matrixType, idx, source) ==
    [c \in DOMAIN target |->
        LET from == {k \in DOMAIN idx : idx[k] = c}
        IN  IF from # {} THEN source[CHOOSE k \in from : TRUE]
            ELSE IF matrixType = DENSE THEN 0 ELSE target[c]]

\* m.MaskColumnsValue(mask, val, numColsPerMaskEntry = 1)
MaskColumnsValue(m, mask, val) ==
    [c \in DOMAIN m |-> IF c \in DOMAIN mask /\ mask[c] = 0 THEN val ELSE m[c]]

\* m.SetValue(val)
SetValue(m, val) == [c \in DOMAIN m |-> val]

\* the condition of the path that returns a reference to the packed data
UnpackFastPath(layout, batchMajor) ==
    LET maxNumTimeSteps == IF layout = NoLayout THEN 1 ELSE GetNumTimeSteps(layout)
        numSequences == IF layout = NoLayout THEN 1 ELSE GetNumSequences(layout)
    IN  \/ maxNumTimeSteps = 1
        \/ numSequences = 1
        \/ batchMajor /\ GetNumParallelSequences(layout) = GetNumSequences(layout)

\* Unpack(sampleShape, packedData, layout, ..., batchMajor, gapPadValue); the
\* gap pad value is <<>> for nullptr and <<v>> for a pointer to v, stale is
\* what the resized destination storage holds
Unpack(packedData, layout, matrixType, stale, batchMajor, gapPadValue) ==
    LET maxNumTimeSteps == IF layout = NoLayout THEN 1 ELSE GetNumTimeSteps(layout)
        numSequences == IF layout = NoLayout THEN 1 ELSE GetNumSequences(layout)
        unpackedShape ==
            IF layout = NoLayout THEN <<>>
            ELSE IF batchMajor THEN <<numSequences, maxNumTimeSteps>>
            ELSE <<maxNumTimeSteps, numSequences>>
        hasPad == gapPadValue # <<>>
    IN  IF UnpackFastPath(layout, batchMajor)
        THEN [data |-> IF hasPad /\ layout # NoLayout /\ HasGaps(layout)
                           THEN MaskMissingColumnsTo(packedData, layout, gapPadValue[1])
                           ELSE packedData,
              shape |-> unpackedShape,
              aliased |-> TRUE]
        ELSE LET resized == [c \in 0..((maxNumTimeSteps * numSequences) - 1) |-> stale]
                 st == ScatterIndices(layout, batchMajor, hasPad)
                 prefilled == IF hasPad /\ gapPadValue[1] = 0 /\ matrixType = SPARSE
                                  THEN SetValue(resized, gapPadValue[1]) ELSE resized
                 scattered == DoScatterColumnsOf(prefilled, matrixType, st.idx, packedData)
             IN  [data |-> IF hasPad /\ gapPadValue[1] # 0
                               THEN MaskColumnsValue(scattered, st.mask, gapPadValue[1])
                               ELSE scattered,
                  shape |-> unpackedShape,
                  aliased |-> FALSE]

(***************************************************************************)
(* The layouts and packed matrices Unpack is called with.                  *)
(***************************************************************************)
\* what a cell of a layout is: a gap, the first frame of a sequence, or the
\* continuation of the sequence of the previous time step (at time 0: of a
\* sequence that began before this minibatch)
CellKinds == {"gap", "start", "cont"}

ValidKinds(S, T, kind) ==
    /\ \A s \in 0..(S - 1), t \in 1..(T - 1) : kind[<<s, t>>] = "cont" => kind[<<s, t - 1>>] # "gap"
    /\ \E s \in 0..(S - 1), t \in 0..(T - 1) : kind[<<s, t>>] # "gap"

RECURSIVE RunEnd(_, _, _, _, _)
\* the end of the run of cells of one table entry that starts before time t
RunEnd(kind, T, s, t, k) ==
    IF t >= T \/ kind[<<s, t>>] # k THEN t ELSE RunEnd(kind, T, s, t + 1, k)

\* the table entries of a layout: one per sequence and one per run of gaps
Entries(S, T, kind) ==
    {[seqId |-> IF kind[<<s, t>>] = "gap" THEN GAP_SEQUENCE_ID ELSE (t * S) + s,
      s |-> s,
      tBegin |-> IF t = 0 /\ kind[<<s, t>>] = "cont" THEN -1 ELSE t,
      tEnd |-> RunEnd(kind, T, s, t + 1, IF kind[<<s, t>>] = "gap" THEN "gap" ELSE "cont")] :
        <<s, t>> \in {c \in (0..(S - 1)) \X (0..(T - 1)) :
                        \/ kind[c] = "start"
                        \/ c[2] = 0
                        \/ kind[c] = "gap" /\ kind[<<c[1], c[2] - 1>>] # "gap"}}

\* the orders in which the entries may have been added to the table
TableOrders == {"bySlot", "byTime", "bySlotReversed", "byTimeReversed"}

OrderKey(order, S, T, info) ==
    LET b == Max2(0, info.tBegin)
        bySlot == (info.s * T) + b
        byTime == (b * S) + info.s
    IN  IF order = "bySlot" THEN bySlot
        ELSE IF order = "byTime" THEN byTime
        ELSE IF order = "bySlotReversed" THEN 0 - bySlot
        ELSE 0 - byTime

RECURSIVE SortedBy(_, _, _, _)
SortedBy(E, order, S, T) ==
    IF E = {} THEN <<>>
    ELSE LET first == CHOOSE e \in E : \A f \in E : OrderKey(order, S, T, e) <= OrderKey(order, S, T, f)
         IN  <<first>> \o SortedBy(E \ {first}, order, S, T)

Layouts ==
    {NoLayout} \cup
    UNION {UNION {{[S |-> S, T |-> T, seqs |-> SortedBy(Entries(S, T, kind), order, S, T)] :
                      order \in TableOrders} :
                  kind \in {k \in [(0..(S - 1)) \X (0..(T - 1)) -> CellKinds] : ValidKinds(S, T, k)}} :
           <<S, T>> \in (1..MaxSlots) \X (1..MaxTime)}

\* what a packed column of a gap, or resized storage, may hold
JunkValues == {0, 9}
\* the gap pad values a caller passes
PadValues == {0, 5}

\* the value of the packed column k of a real sequence
SourceValue(k) == 100 + k

\* a packed matrix of the layout (one column when there is no layout)
PackedData(layout, junk) ==
    IF layout = NoLayout THEN [k \in {0} |-> SourceValue(0)]
    ELSE [k \in 0..(GetNumCols(layout) - 1) |->
             IF IsGapCell(layout, k % layout.S, k \div layout.S) THEN junk ELSE SourceValue(k)]

NoUnpackArgs == [layout |-> NoLayout, packedData |-> <<>>, matrixType |-> DENSE,
                 stale |-> 0, batchMajor |-> FALSE, gapPadValue |-> <<>>]

(***************************************************************************)
(* ComputationNode<ElemType>::BroadcastToPacked                            *)
(***************************************************************************)
\* const unsigned NUM_THREADS = 2
NUM_THREADS == 2

\* the time index of the whole-batch frame range (a time step is 0, 1, ...)
AllFramesOf == -1

\* inputLayout->FindSequence(seqId)
FindSequence(layout, seqId) ==
    layout.seqs[CHOOSE q \in 1..Len(layout.seqs) : layout.seqs[q].seqId = seqId]

\* layout->GetColumnIndex(seq, t)
GetColumnIndex(layout, info, t) == ((info.tBegin + t) * layout.S) + info.s

RECURSIVE ColumnsFrom(_, _, _)
ColumnsFrom(layout, info, t) ==
    IF t >= Min2(layout.T, info.tEnd) THEN <<>>
    ELSE <<(t * layout.S) + info.s>> \o ColumnsFrom(layout, info, t + 1)

\* targetLayout->GetColumnIndices(sequenceInfo): the columns of the frames of
\* the sequence that lie in the minibatch, in time order
GetColumnIndices(layout, info) == ColumnsFrom(layout, info, Max2(0, info.tBegin))

\* broadcastTo.GetNumCols(): the columns the target frame range addresses
BroadcastNumCols(targetLayout, fr) ==
    IF fr = AllFramesOf THEN GetNumCols(targetLayout)
    ELSE GetNumParallelSequences(targetLayout)

\* mutation: the source sequence is taken by position in the table, not by id
SequenceGatherByPosition(targetLayout, inputLayout, fr, q) ==
    LET sequenceInfo == targetLayout.seqs[q]
    IN  IF /\ sequenceInfo.seqId # GAP_SEQUENCE_ID
           /\ \/ fr = AllFramesOf
              \/ sequenceInfo.tBegin <= fr /\ sequenceInfo.tEnd > fr
        THEN LET srcSequenceInfo == inputLayout.seqs[((q - 1) % Len(inputLayout.seqs)) + 1]
             IN  [cols |-> IF fr = AllFramesOf
                               THEN GetColumnIndices(targetLayout, sequenceInfo)
                               ELSE <<sequenceInfo.s>>,
                  val |-> GetColumnIndex(inputLayout, srcSequenceInfo, 0)]
        ELSE [cols |-> <<>>, val |-> -1]

\* mutation: a single time step does not test whether the sequence is active
SequenceGatherAnyTime(targetLayout, inputLayout, fr, q) ==
    LET sequenceInfo == targetLayout.seqs[q]
    IN  IF sequenceInfo.seqId # GAP_SEQUENCE_ID
        THEN LET srcSequenceInfo == FindSequence(inputLayout, sequenceInfo.seqId)
             IN  [cols |-> IF fr = AllFramesOf
                               THEN GetColumnIndices(targetLayout, sequenceInfo)
                               ELSE <<sequenceInfo.s>>,
                  val |-> GetColumnIndex(inputLayout, srcSequenceInfo, 0)]
        ELSE [cols |-> <<>>, val |-> -1]

\* one iteration of the parallel loop: the entries of gatherIndicesVector it
\* writes, in order, and the value it writes
SequenceGather(targetLayout, inputLayout, fr, q) ==
    LET sequenceInfo == targetLayout.seqs[q]
    IN  IF /\ sequenceInfo.seqId # GAP_SEQUENCE_ID
           /\ \/ fr = AllFramesOf
              \/ sequenceInfo.tBegin <= fr /\ sequenceInfo.tEnd > fr
        THEN LET srcSequenceInfo == FindSequence(inputLayout, sequenceInfo.seqId)
                 gatherFromIndex == GetColumnIndex(inputLayout, srcSequenceInfo, 0)
             IN  [cols |-> IF fr = AllFramesOf
                               THEN GetColumnIndices(targetLayout, sequenceInfo)
                               ELSE <<sequenceInfo.s>>,
                  val |-> gatherFromIndex]
        ELSE [cols |-> <<>>, val |-> -1]

RECURSIVE WriteAll(_, _, _)
\* for (auto i : currentSequenceColumnIndices) gatherIndicesVector[i] = gatherFromIndex
WriteAll(idx, cols, val) ==
    IF cols = <<>> THEN idx
    ELSE WriteAll([idx EXCEPT ![Head(cols)] = val], Tail(cols), val)

RECURSIVE GatherIndicesFrom(_, _, _, _, _)
\* the loop over the sequence table executed by one thread, in table order
GatherIndicesFrom(idx, targetLayout, inputLayout, fr, q) ==
    IF q > Len(targetLayout.seqs) THEN idx
    ELSE LET w == SequenceGather(targetLayout, inputLayout, fr, q)
         IN  GatherIndicesFrom(WriteAll(idx, w.cols, w.val), targetLayout, inputLayout, fr, q + 1)

\* gatherIndicesVector(broadcastTo.GetNumCols(), -1)
NoGatherIndices(targetLayout, fr) ==
    [k \in 0..(BroadcastNumCols(targetLayout, fr) - 1) |-> -1]

\* broadcastTo.DoGatherColumnsOf(beta, idx, dataToBroadcast, alpha = 1): a
\* column with index -1 is left alone, any other becomes the source column
\* plus beta times what it held
DoGatherColumnsOf(target, beta, idx, source) ==
    [c \in DOMAIN target |->
        IF idx[c] = -1 THEN target[c] ELSE source[idx[c]] + (beta * target[c])]

\* the layouts dataToBroadcast may have for a target layout: one column per
\* real sequence of the target, the sequences in any slots and any table order
BroadcastOrders == {"bySlot", "bySlotReversed"}

InputLayoutsFor(targetLayout) ==
    LET ids == {targetLayout.seqs[q].seqId : q \in RealPositions(targetLayout)}
        n == Cardinality(ids)
    IN  {[S |-> n, T |-> 1,
          seqs |-> SortedBy({[seqId |-> id, s |-> slot[id], tBegin |-> 0, tEnd |-> 1] : id \in ids},
                            order, n, 1)] :
            slot \in {f \in [ids -> 0..(n - 1)] : \A a, b \in ids : a # b => f[a] # f[b]},
            order \in BroadcastOrders}

\* the values of dataToBroadcast and the prior contents of broadcastTo
BroadcastValue(c) == 200 + c
PriorValue(c) == 50 + c
Betas == {0, 1}

NoBroadcastArgs == [targetLayout |-> NoLayout, inputLayout |-> NoLayout, fr |-> AllFramesOf]

(***************************************************************************)
(* Subroutines for Validate() implementations.  A sample shape is the      *)
(* sequence of its dimensions, a layout pointer is 0 (nullptr) or the      *)
(* identity of a layout.                                                   *)
(***************************************************************************)
\* highest rank and largest dimension of a sample shape; 0 is a dimension to
\* be inferred, 1 a broadcasting one
MaxRank == 2
MaxDim == 3
\* number of different minibatch layouts in the network
MaxLayouts == 2
\* most inputs of an n-ary zip
MaxZipInputs == 3

\* the sample shapes of rank at most rank
Shapes(rank) == UNION {[1..r -> 0..MaxDim] : r \in 0..rank}

\* m_pMBLayout == nullptr
NoMBLayout == 0

\* OperationName() of an input, as far as the subroutines look at it, and
\* whether it is a LearnableParameter
PlainOp == "Plus"
LearnableOp == "LearnableParameter"
DistributedOps == {"DistributedFullyConnected_v2", "DistributedAdditiveFullConnection"}

\* the input nodes with one of the operations and a sample shape of rank at
\* most rank; parameters carry no layout
InputNodes(ops, rank) ==
    {[shape |-> shape, layout |-> layout, op |-> op] :
        shape \in Shapes(rank), layout \in 0..MaxLayouts, op \in ops} \
    {[shape |-> shape, layout |-> layout, op |-> LearnableOp] :
        shape \in Shapes(rank), layout \in 1..MaxLayouts}

\* a node before validation: the shape and layout an earlier pass left
ValidatedNode(ins) ==
    [ins |-> ins, shape |-> <<0>>, layout |-> 1, err |-> "none", mismatch |-> {}]

NoValidatedNode == ValidatedNode(<<>>)

HasMBLayout(x) == x.layout # NoMBLayout

\* InvalidArgument(...), LogicError(...) of a subroutine: the call is abandoned
Raise(n, e) == [n EXCEPT !.err = e]

\* ComputationNodeBase::Validate(isFinalValidationPass)
ValidateBase(n, isFinalValidationPass) == n

\* ValidateMBLayout(which, vsWhich): a mismatch is let slip with a reminder
ValidateMBLayout(n, which, vsWhich) ==
    IF \/ ~HasMBLayout(n.ins[which])
       \/ ~HasMBLayout(n.ins[vsWhich])
       \/ n.ins[which].layout = n.ins[vsWhich].layout
    THEN n
    ELSE [n EXCEPT !.mismatch = @ \cup {<<which, vsWhich>>}]

\* LinkToMBLayout(pMBLayout)
LinkToMBLayout(n, pMBLayout) == [n EXCEPT !.layout = pMBLayout]

RECURSIVE InferMBLayoutLoop(_, _, _, _)
\* for (auto input : m_inputs) of InferMBLayoutFromInputsForStandardCase;
\* first is the position of firstInputWithMBLayout, 0 while there is none
InferMBLayoutLoop(n, isFinalValidationPass, i, first) ==
    IF i > Len(n.ins)
    THEN LinkToMBLayout(n, IF first # 0 THEN n.ins[first].layout ELSE NoMBLayout)
    ELSE IF ~HasMBLayout(n.ins[i])
         THEN InferMBLayoutLoop(n, isFinalValidationPass, i + 1, first)
    ELSE IF first = 0
         THEN InferMBLayoutLoop(n, isFinalValidationPass, i + 1, i)
    ELSE IF isFinalValidationPass
         THEN InferMBLayoutLoop(ValidateMBLayout(n, first, i), isFinalValidationPass, i + 1, first)
    ELSE InferMBLayoutLoop(n, isFinalValidationPass, i + 1, first)

\* mutation: the layout is installed on the final validation pass only
InferMBLayoutOnFinalPassOnly(n, isFinalValidationPass) ==
    IF isFinalValidationPass THEN InferMBLayoutLoop(n, isFinalValidationPass, 1, 0) ELSE n

InferMBLayoutFromInputsForStandardCase(n, isFinalValidationPass) ==
    InferMBLayoutLoop(n, isFinalValidationPass, 1, 0)

\* SetDims(sampleLayout, isMinibatch)
SetDims(n, sampleLayout) == [n EXCEPT !.shape = sampleLayout]

\* TensorShape::Scalar(isV2Library)
Scalar(isV2Library) == IF isV2Library THEN <<>> ELSE <<1>>

\* dims.resize(rank, 1): pad with ones
PadOnes(dims, rank) ==
    IF rank > Len(dims) THEN dims \o [k \in 1..(rank - Len(dims)) |-> 1] ELSE dims

\* LearnableParameter::InferInputDimsFrom(otherShape): the unset dimensions
\* are taken from the other shape
InferInputDimsFrom(shape, otherShape) ==
    [k \in 1..Len(shape) |->
        IF shape[k] = 0 /\ k <= Len(otherShape) THEN otherShape[k] ELSE shape[k]]

\* in->ValidateInferInputDimsFrom(other->GetSampleLayout()): only learnable
\* parameters can be inferred
ValidateInferInputDimsFrom(n, in, other) ==
    IF n.ins[in].op = LearnableOp
    THEN [n EXCEPT !.ins[in].shape = InferInputDimsFrom(@, n.ins[other].shape)]
    ELSE n

\* for (index = 0; index < 2; index++) in->ValidateInferInputDimsFrom(other)
ValidateInferBinaryInputDims(n) ==
    ValidateInferInputDimsFrom(ValidateInferInputDimsFrom(n, 1, 2), 2, 1)

RECURSIVE ValidateInferNaryLoop(_, _, _, _)
\* the two nested loops of ValidateInferNaryInputDims
ValidateInferNaryLoop(n, numInputs, index, indexOther) ==
    IF index > numInputs THEN n
    ELSE IF indexOther > numInputs THEN ValidateInferNaryLoop(n, numInputs, index + 1, 1)
    ELSE ValidateInferNaryLoop(
             IF indexOther # index THEN ValidateInferInputDimsFrom(n, index, indexOther) ELSE n,
             numInputs, index, indexOther + 1)

ValidateInferNaryInputDims(n, numInputs) == ValidateInferNaryLoop(n, numInputs, 1, 1)

\* ValidateUnaryMap(isFinalValidationPass)
ValidateUnaryMap(n, isFinalValidationPass) ==
    LET n1 == ValidateBase(n, isFinalValidationPass)
        n2 == InferMBLayoutFromInputsForStandardCase(n1, isFinalValidationPass)
    IN  SetDims(n2, n2.ins[1].shape)

RECURSIVE ZipLoopFirstNeverBroadcasts(_, _, _, _)
\* mutation: a broadcasting or unspecified dimension of input 0 is not replaced
ZipLoopFirstNeverBroadcasts(dims, shape1, k, isFinalValidationPass) ==
    IF k > Len(shape1) THEN [dims |-> dims, bad |-> FALSE]
    ELSE LET dim1 == shape1[k]
         IN  IF dim1 <= 1 /\ dims[k] # 0
                 THEN ZipLoopFirstNeverBroadcasts(dims, shape1, k + 1, isFinalValidationPass)
             ELSE IF isFinalValidationPass /\ dim1 # dims[k]
                 THEN [dims |-> dims, bad |-> TRUE]
             ELSE ZipLoopFirstNeverBroadcasts(dims, shape1, k + 1, isFinalValidationPass)

RECURSIVE ZipLoop(_, _, _, _)
\* for (size_t k = 0; k < shape1.GetRank(); k++) of ValidateBinaryZip; bad
\* when InvalidArgument is raised
ZipLoop(dims, shape1, k, isFinalValidationPass) ==
    IF k > Len(shape1) THEN [dims |-> dims, bad |-> FALSE]
    ELSE LET dim1 == shape1[k]
         IN  IF dims[k] <= 1 /\ dim1 # 0
                 THEN ZipLoop([dims EXCEPT ![k] = dim1], shape1, k + 1, isFinalValidationPass)
             ELSE IF dim1 <= 1 /\ dims[k] # 0
                 THEN ZipLoop(dims, shape1, k + 1, isFinalValidationPass)
             ELSE IF isFinalValidationPass /\ dim1 # dims[k]
                 THEN [dims |-> dims, bad |-> TRUE]
             ELSE ZipLoop(dims, shape1, k + 1, isFinalValidationPass)

\* mutation: without allowBroadcast unequal sample shapes are rejected
ValidateBinaryZipHonoursAllowBroadcast(n, isFinalValidationPass, allowBroadcast) ==
    LET n1 == ValidateBase(n, isFinalValidationPass)
        n2 == InferMBLayoutFromInputsForStandardCase(n1, isFinalValidationPass)
        n3 == ValidateInferBinaryInputDims(n2)
        n4 == IF isFinalValidationPass THEN ValidateMBLayout(n3, 1, 2) ELSE n3
        shape0 == n4.ins[1].shape
        shape1 == n4.ins[2].shape
        zipped == ZipLoop(PadOnes(shape0, Len(shape1)), shape1, 1, isFinalValidationPass)
    IN  IF zipped.bad \/ (~allowBroadcast /\ shape0 # shape1)
        THEN Raise(n4, "InvalidArgument")
        ELSE SetDims(n4, zipped.dims)

\* ValidateBinaryZip(isFinalValidationPass, allowBroadcast)
ValidateBinaryZip(n, isFinalValidationPass, allowBroadcast) ==
    LET n1 == ValidateBase(n, isFinalValidationPass)
        n2 == InferMBLayoutFromInputsForStandardCase(n1, isFinalValidationPass)
        n3 == ValidateInferBinaryInputDims(n2)
        n4 == IF isFinalValidationPass THEN ValidateMBLayout(n3, 1, 2) ELSE n3
        shape0 == n4.ins[1].shape
        shape1 == n4.ins[2].shape
        zipped == ZipLoop(PadOnes(shape0, Len(shape1)), shape1, 1, isFinalValidationPass)
    IN  IF zipped.bad THEN Raise(n4, "InvalidArgument")
        ELSE SetDims(n4, zipped.dims)

RECURSIVE NaryLayoutPairs(_, _, _, _)
\* ValidateMBLayout(Input(i), Input(j)) for all pairs i < j
NaryLayoutPairs(n, numInputs, i, j) ==
    IF i > numInputs THEN n
    ELSE IF j > numInputs THEN NaryLayoutPairs(n, numInputs, i + 1, i + 2)
    ELSE NaryLayoutPairs(ValidateMBLayout(n, i, j), numInputs, i, j + 1)

\* maxRank: the highest rank of the inputs
MaxInputRank(n, numInputs) ==
    CHOOSE r \in {Len(n.ins[i].shape) : i \in 1..numInputs} :
        \A i \in 1..numInputs : Len(n.ins[i].shape) <= r

RECURSIVE NaryInvalidDim(_, _, _, _, _)
\* the inner loop of the check for invalid dimensions: TRUE when it raises
NaryInvalidDim(n, numInputs, k, i, maxDim) ==
    IF i > numInputs THEN FALSE
    ELSE LET currentShape == n.ins[i].shape
         IN  IF Len(currentShape) >= k
             THEN LET currentDim == currentShape[k]
                  IN  IF currentDim > 1 /\ maxDim # currentDim /\ maxDim > 1 THEN TRUE
                      ELSE IF currentDim > maxDim
                          THEN NaryInvalidDim(n, numInputs, k, i + 1, currentDim)
                      ELSE NaryInvalidDim(n, numInputs, k, i + 1, maxDim)
             ELSE NaryInvalidDim(n, numInputs, k, i + 1, maxDim)

\* mutation: dims[k] is the largest value of dimension k, 1 where it is missing
NaryDimTakesMaximum(n, numInputs, k, i, d) ==
    LET all == {d} \cup {IF Len(n.ins[j].shape) >= k THEN n.ins[j].shape[k] ELSE 1 :
                             j \in i..numInputs}
    IN  CHOOSE m \in all : \A x \in all : x <= m

RECURSIVE NaryDim(_, _, _, _, _)
\* the inner loop that sets up dims[k]
NaryDim(n, numInputs, k, i, d) ==
    IF i > numInputs THEN d
    ELSE LET shape == n.ins[i].shape
         IN  IF Len(shape) >= k /\ d <= 1 /\ shape[k] # 0
             THEN NaryDim(n, numInputs, k, i + 1, shape[k])
             ELSE NaryDim(n, numInputs, k, i + 1, d)

\* ValidateNaryZip(isFinalValidationPass, allowBroadcast, numInputs)
ValidateNaryZip(n, isFinalValidationPass, allowBroadcast, numInputs) ==
    LET n1 == ValidateBase(n, isFinalValidationPass)
        n2 == InferMBLayoutFromInputsForStandardCase(n1, isFinalValidationPass)
        n3 == ValidateInferNaryInputDims(n2, numInputs)
        n4 == IF isFinalValidationPass THEN NaryLayoutPairs(n3, numInputs, 1, 2) ELSE n3
        maxRank == MaxInputRank(n4, numInputs)
        dims0 == PadOnes(n4.ins[1].shape, maxRank)
    IN  IF \E k \in 1..maxRank : NaryInvalidDim(n4, numInputs, k, 1, 0)
        THEN Raise(n4, "InvalidArgument")
        ELSE SetDims(n4, [k \in 1..maxRank |-> NaryDim(n4, numInputs, k, 1, dims0[k])])

\* mutation: the layout of an earlier pass is kept
ValidateUnaryReduceKeepsLayout(n, isFinalValidationPass, keepDimensions, isV2Library) ==
    SetDims(ValidateBase(n, isFinalValidationPass),
            IF keepDimensions THEN n.ins[1].shape ELSE Scalar(isV2Library))

\* ValidateUnaryReduce(isFinalValidationPass, keepDimensions)
ValidateUnaryReduce(n, isFinalValidationPass, keepDimensions, isV2Library) ==
    LET n1 == ValidateBase(n, isFinalValidationPass)
        n2 == [n1 EXCEPT !.layout = NoMBLayout]
    IN  SetDims(n2, IF keepDimensions THEN n2.ins[1].shape ELSE Scalar(isV2Library))

\* TensorShape::IsElementwiseCompatibleWith: equal sample shapes
IsElementwiseCompatibleWith(shape, other) == shape = other

\* ValidateBinaryReduce(isFinalValidationPass)
ValidateBinaryReduce(n, isFinalValidationPass, isV2Library) ==
    LET n1 == ValidateBase(n, isFinalValidationPass)
        n2 == [n1 EXCEPT !.layout = NoMBLayout]
        n3 == ValidateInferBinaryInputDims(n2)
        failed ==
            /\ isFinalValidationPass
            /\ IF ~IsElementwiseCompatibleWith(n3.ins[1].shape, n3.ins[2].shape)
               THEN n3.ins[1].op \notin DistributedOps /\ n3.ins[2].op \notin DistributedOps
               ELSE ~HasMBLayout(n3.ins[1]) \/ ~HasMBLayout(n3.ins[2])
    IN  IF failed THEN Raise(n3, "LogicError")
        ELSE SetDims(n3, Scalar(isV2Library))

(***************************************************************************)
(* Initial states: any graph whose edges lead from a node to nodes that    *)
(* come earlier in topological order, at the start of a backward pass.     *)
(***************************************************************************)
InputLists == UNION {[1..k -> Nodes] : k \in 0..MaxInputs}

NoCall == [node |-> NoNode, fr |-> AllFrames, inThis |-> FALSE, inOuter |-> FALSE,
           by |-> [n \in Nodes |-> NoNode], val |-> [n \in Nodes |-> 0],
           buf |-> [n \in Nodes |-> n], zeroFills |-> [n \in Nodes |-> 0]]

InitGrad ==
    /\ inputs \in {f \in [Nodes -> InputLists] :
                     \A n \in Nodes : \A i \in 1..Len(f[n]) : f[n][i] < n}
    /\ needsGradient \in [Nodes -> BOOLEAN]
    /\ isPartOfLoop \in [Nodes -> BOOLEAN]
    /\ optimizes \in {o \in [Nodes -> SUBSET Nodes] : \A n \in Nodes : o[n] \subseteq Range(inputs[n])}
    /\ shouldOptimize \in BOOLEAN
    /\ gradInitBy = [n \in Nodes |-> NoNode]
    /\ gradBuf = [n \in Nodes |-> n]
    /\ \E v \in StaleValues : gradVal = [n \in Nodes |-> v]
    /\ writers = [n \in Nodes |-> {}]
    /\ zeroFills = [n \in Nodes |-> 0]
    /\ cur = NumNodes
    /\ steps = 0
    /\ err = "none"
    /\ call = NoCall
    /\ log = <<>>

(***************************************************************************)
(* Tensor helpers: the shape of the node's whole object and of the slice   *)
(* a FrameRange refers to.  A tensor shape is its dimensions, the stride   *)
(* of every dimension and the offset of its first element.                 *)
(***************************************************************************)
\* size_t(-1): no rank given, all time steps, all sequences
SIZE_MAX == -1

RECURSIVE DimsProduct(_, _)
\* the product of the first k dimensions
DimsProduct(dims, k) == IF k = 0 THEN 1 ELSE dims[k] * DimsProduct(dims, k - 1)

\* TensorShape(dims): dense strides, offset 0
TensorShape(dims) ==
    [dims |-> dims,
     strides |-> [k \in 1..Len(dims) |-> DimsProduct(dims, k - 1)],
     offset |-> 0]

\* shape.AppendInPlace(rank, newDim): pad with ones to rank, then append
AppendInPlace(shape, rank, newDim) == TensorShape(Append(PadOnes(shape.dims, rank), newDim))

\* the sample shapes of validated nodes: no dimension is unset
SampleShapes == {sh \in Shapes(MaxRank) : \A k \in 1..Len(sh) : sh[k] >= 1}

\* a layout of S slots and T time steps, as far as the tensor helpers read it
DenseLayout(S, T) ==
    [S |-> S, T |-> T,
     seqs |-> [q \in 1..S |-> [seqId |-> q - 1, s |-> q - 1, tBegin |-> 0, tEnd |-> T]]]

SliceLayouts == {NoLayout} \cup {DenseLayout(S, T) : S \in 1..MaxSlots, T \in 1..MaxTime}

\* FrameRange: a time step or all, and a sequence or all
FrameRangesOf(layout) ==
    [timeIdxInSeq : {SIZE_MAX} \cup (0..(layout.T - 1)),
     seqIndex : {SIZE_MAX} \cup (0..(layout.S - 1))]

\* GetTensorShape(rank)
GetTensorShape(node, rank) ==
    LET tensorShape == TensorShape(node.shape)
    IN  IF node.layout # NoLayout
        THEN LET i == IF rank # SIZE_MAX THEN rank ELSE Len(tensorShape.dims)
             IN  AppendInPlace(AppendInPlace(tensorShape, i, GetNumParallelSequences(node.layout)),
                               i + 1, GetNumTimeSteps(node.layout))
        ELSE tensorShape

\* TensorSliceWithMBLayoutFor(dims, fr, layout): the bounds of the slice in
\* every dimension; without a layout the whole object
TensorSliceWithMBLayoutFor(dims, fr, layout) ==
    LET seqAxis == Len(dims) - 1
        timeAxis == Len(dims)
        narrowSeq(k) == layout # NoLayout /\ k = seqAxis /\ fr.seqIndex # SIZE_MAX
        narrowTime(k) == layout # NoLayout /\ k = timeAxis /\ fr.timeIdxInSeq # SIZE_MAX
    IN  [begin |-> [k \in 1..Len(dims) |->
                       IF narrowSeq(k) THEN fr.seqIndex
                       ELSE IF narrowTime(k) THEN fr.timeIdxInSeq ELSE 0],
         end |-> [k \in 1..Len(dims) |->
                     IF narrowSeq(k) THEN fr.seqIndex + 1
                     ELSE IF narrowTime(k) THEN fr.timeIdxInSeq + 1 ELSE dims[k]]]

RECURSIVE SliceOffset(_, _, _)
\* the offset of the first element of a slice
SliceOffset(shape, begin, k) ==
    IF k = 0 THEN shape.offset
    ELSE SliceOffset(shape, begin, k - 1) + (begin[k] * shape.strides[k])

\* shape.NarrowTo(slice): strides are kept
NarrowTo(shape, slice) ==
    [dims |-> [k \in 1..Len(shape.dims) |-> slice.end[k] - slice.begin[k]],
     strides |-> shape.strides,
     offset |-> SliceOffset(shape, slice.begin, Len(shape.dims))]

\* GetTensorSliceFor(rank, fr)
GetTensorSliceFor(node, rank, fr) ==
    LET tensorShape == GetTensorShape(node, rank)
        slice == TensorSliceWithMBLayoutFor(tensorShape.dims, fr, node.layout)
    IN  NarrowTo(tensorShape, slice)

\* fr.IsOneColumnWrt(layout); a node without layout holds one object
IsOneColumnWrt(fr, layout) ==
    \/ layout = NoLayout
    \/ /\ fr.timeIdxInSeq # SIZE_MAX \/ GetNumTimeSteps(layout) = 1
       /\ fr.seqIndex # SIZE_MAX \/ GetNumParallelSequences(layout) = 1

\* what a query returns: the shape, or the error raised
Returned(shape) == [err |-> "none", shape |-> shape]
Failed(e) == [err |-> e, shape |-> TensorShape(<<>>)]

\* shape.TrimRankInPlace(rank): the dimensions beyond rank must be 1
TrimRankInPlace(shape, rank) ==
    IF \E k \in (rank + 1)..Len(shape.dims) : shape.dims[k] # 1
    THEN Failed("LogicError")
    ELSE Returned([dims |-> SubSeq(shape.dims, 1, rank),
                   strides |-> SubSeq(shape.strides, 1, rank),
                   offset |-> shape.offset])

\* mutation: the appended axes are left in the result
GetOneSampleTensorSliceForUntrimmed(node, rank, fr) ==
    IF ~IsOneColumnWrt(fr, node.layout) THEN Failed("LogicError")
    ELSE Returned(GetTensorSliceFor(node, rank, fr))

\* GetOneSampleTensorSliceFor(rank, fr)
GetOneSampleTensorSliceFor(node, rank, fr) ==
    LET result == GetTensorSliceFor(node, rank, fr)
    IN  IF ~IsOneColumnWrt(fr, node.layout) THEN Failed("LogicError")
        ELSE IF node.layout # NoLayout THEN TrimRankInPlace(result, rank)
        ELSE Returned(result)

NoSliceNode == [shape |-> <<>>, layout |-> NoLayout]
NoFrameRange == [timeIdxInSeq |-> SIZE_MAX, seqIndex |-> SIZE_MAX]

\* no tensor-slice query is modelled
IdleSlice ==
    /\ sNode = NoSliceNode
    /\ sFr = NoFrameRange
    /\ sOut = <<>>

(***************************************************************************)
(* The NaN check at the end of a node's forward and backward step.  Only   *)
(* whether a column holds a NaN matters: a column is "num", "zero" or      *)
(* "NaN".                                                                  *)
(***************************************************************************)
\* the number of columns of the matrices of the checked nodes
MaxTrackCols == 2

\* the number of inputs of the node whose step ends
MaxTrackInputs == 2

\* layouts of at most MaxTrackCols columns: every cell a gap or a sequence
\* of one step
TrackLayouts ==
    {NoLayout} \cup
    UNION {{[S |-> c[1], T |-> c[2], seqs |-> SortedBy(Entries(c[1], c[2], kind), "bySlot", c[1], c[2])] :
               kind \in {k \in [(0..(c[1] - 1)) \X (0..(c[2] - 1)) -> {"gap", "start"}] :
                            ValidKinds(c[1], c[2], k)}} :
           c \in {d \in (1..MaxSlots) \X (1..MaxTime) : d[1] * d[2] <= MaxTrackCols}}

\* the matrices a node with this layout can hold; without layout one column
MatricesFor(layout) ==
    [0..((IF layout = NoLayout THEN 1 ELSE GetNumCols(layout)) - 1) -> {"num", "NaN"}]

\* Matrix::HasNan
HasNan(data) == \E k \in DOMAIN data : data[k] = "NaN"

\* MaskMissingValueColumnsToZero / MaskMissingGradientColumnsToZero with
\* FrameRange(layout): nothing to mask without a layout
MaskMissingColumnsToZero(data, layout) ==
    IF layout = NoLayout THEN data ELSE MaskMissingColumnsTo(data, layout, "zero")

\* InvalidateMissingValueColumns(FrameRange(layout))
InvalidateMissingColumns(data, layout) ==
    IF layout = NoLayout THEN data ELSE MaskMissingColumnsTo(data, layout, "NaN")

\* HasEnvironmentPtr() && Environment().trackGapNans
TrackingGapNans(node) == node.hasEnvironment /\ node.trackGapNans

\* the value of the node after EndForwardProp, and the error raised
EndForwardPropOf(node) ==
    IF TrackingGapNans(node)
    THEN LET masked == MaskMissingColumnsToZero(node.value, node.layout)
         IN  IF HasNan(masked)
             THEN [node |-> [node EXCEPT !.value = masked], err |-> "LogicError"]
             ELSE [node |-> [node EXCEPT !.value = InvalidateMissingColumns(masked, node.layout)],
                   err |-> "none"]
    ELSE [node |-> node, err |-> "none"]

RECURSIVE EndBackpropLoopUnmasked(_, _)
\* mutation: the gradients are checked as they are
EndBackpropLoopUnmasked(m_inputs, i) ==
    IF i > Len(m_inputs) THEN [inputs |-> m_inputs, err |-> "none"]
    ELSE IF m_inputs[i].needsGradient /\ HasNan(m_inputs[i].gradient)
    THEN [inputs |-> m_inputs, err |-> "LogicError"]
    ELSE EndBackpropLoopUnmasked(m_inputs, i + 1)

RECURSIVE EndBackpropLoop(_, _)
\* the loop of EndBackprop from input i on: the gradients after it, and the
\* error raised
EndBackpropLoop(m_inputs, i) ==
    IF i > Len(m_inputs) THEN [inputs |-> m_inputs, err |-> "none"]
    ELSE LET child == m_inputs[i]
         IN  IF child.needsGradient
             THEN LET masked == MaskMissingColumnsToZero(child.gradient, child.layout)
                      after == [m_inputs EXCEPT ![i].gradient = masked]
                  IN  IF HasNan(masked) THEN [inputs |-> after, err |-> "LogicError"]
                      ELSE EndBackpropLoop(after, i + 1)
             ELSE EndBackpropLoop(m_inputs, i + 1)

\* the inputs of the node after EndBackprop, and the error raised
EndBackpropOf(node) ==
    IF TrackingGapNans(node)
    THEN LET r == EndBackpropLoop(node.inputs, 1)
         IN  [node |-> [node EXCEPT !.inputs = r.inputs], err |-> r.err]
    ELSE [node |-> node, err |-> "none"]

\* the inputs of a node: gradient-needing or not, with a layout and a gradient
TrackInputs ==
    UNION {[needsGradient : BOOLEAN, layout : {layout}, gradient : MatricesFor(layout)] :
              layout \in TrackLayouts}

NoTrackNode ==
    [hasEnvironment |-> FALSE, trackGapNans |-> FALSE, layout |-> NoLayout,
     value |-> [k \in 0..0 |-> "num"], inputs |-> <<>>]

\* no forward or backward step is being ended
IdleTrack ==
    /\ tNode = NoTrackNode
    /\ tOut = <<>>

(***************************************************************************)
(* WriteFormattingOptions: the record and its image in a File.  The File   *)
(* is a sequence of bytes: a flag is one byte, a string its characters     *)
(* followed by a 0.                                                        *)
(***************************************************************************)
\* the length of the strings of the record
MaxStringLen == 1

\* the characters of the strings: none is 0
Chars == {97}

Strings == UNION {[1..k -> Chars] : k \in 0..MaxStringLen}

\* the flags of the record; the other fields are strings
FlagFields == {"isCategoryLabel", "isSparse", "transpose"}

\* mutation: transpose is read before isSparse
LoadOrderFlagsExchanged ==
    <<"isCategoryLabel", "labelMappingFile", "transpose", "isSparse", "prologue", "epilogue",
      "sequenceSeparator", "sequencePrologue", "sequenceEpilogue", "elementSeparator",
      "sampleSeparator", "precisionFormat">>

\* the fields in the order Save writes them
SaveOrder ==
    <<"isCategoryLabel", "labelMappingFile", "isSparse", "transpose", "prologue", "epilogue",
      "sequenceSeparator", "sequencePrologue", "sequenceEpilogue", "elementSeparator",
      "sampleSeparator", "precisionFormat">>

\* the fields in the order Load reads them
LoadOrder ==
    <<"isCategoryLabel", "labelMappingFile", "isSparse", "transpose", "prologue", "epilogue",
      "sequenceSeparator", "sequencePrologue", "sequenceEpilogue", "elementSeparator",
      "sampleSeparator", "precisionFormat">>

\* the string fields of the record
StringFields == {SaveOrder[k] : k \in 1..Len(SaveOrder)} \ FlagFields

\* the records: every flag either way, every string any of Strings
FormattingOptions ==
    {flags @@ strings : flags \in [FlagFields -> BOOLEAN], strings \in [StringFields -> Strings]}

\* fstream << value
FilePut(stream, field, value) ==
    IF field \in FlagFields THEN Append(stream, IF value THEN 1 ELSE 0)
    ELSE stream \o value \o <<0>>

RECURSIVE StringEnd(_, _)
\* the position of the 0 that ends the string at pos
StringEnd(stream, pos) ==
    IF pos > Len(stream) \/ stream[pos] = 0 THEN pos ELSE StringEnd(stream, pos + 1)

\* fstream >> value: the value read at pos and the position after it
FileGet(stream, field, pos) ==
    IF field \in FlagFields
    THEN [value |-> pos <= Len(stream) /\ stream[pos] # 0, pos |-> pos + 1]
    ELSE [value |-> SubSeq(stream, pos, StringEnd(stream, pos) - 1), pos |-> StringEnd(stream, pos) + 1]

RECURSIVE SaveFields(_, _, _)
\* the stream after the first k fields of order have been written
SaveFields(options, order, k) ==
    IF k = 0 THEN <<>>
    ELSE FilePut(SaveFields(options, order, k - 1), order[k], options[order[k]])

RECURSIVE LoadFields(_, _, _)
\* the fields read and the position in the stream after the first k reads
LoadFields(stream, order, k) ==
    IF k = 0 THEN [fields |-> {}, pos |-> 1]
    ELSE LET sofar == LoadFields(stream, order, k - 1)
             read == FileGet(stream, order[k], sofar.pos)
         IN  [fields |-> sofar.fields \cup {<<order[k], read.value>>}, pos |-> read.pos]

\* the record whose fields have been read
RecordOf(fields) ==
    [f \in {p[1] : p \in fields} |-> (CHOOSE p \in fields : p[1] = f)[2]]

\* no WriteFormattingOptions record is modelled
IdleFormat ==
    /\ fOptions = <<>>
    /\ fStream = <<>>
    /\ fLoaded = <<>>

IdleAux == IdleSlice /\ IdleTrack /\ IdleFormat

\* no call of Unpack is modelled in a backward pass
IdleUnpack ==
    /\ uArgs = NoUnpackArgs
    /\ uOut = <<>>

\* no Validate...() subroutine is modelled
IdleValidate ==
    /\ vNode = NoValidatedNode
    /\ vCall = <<>>

\* no call of BroadcastToPacked is modelled
IdleBroadcast ==
    /\ bArgs = NoBroadcastArgs
    /\ bIdx = <<>>
    /\ bClaimed = {}
    /\ bThreads = <<>>
    /\ bWrote = <<>>
    /\ bOut = <<>>

Init == InitGrad /\ IdleUnpack /\ IdleBroadcast /\ IdleValidate /\ IdleAux

\* one node without inputs and without gradient: the graph while Unpack is studied
IdleGrad ==
    /\ inputs = [n \in Nodes |-> <<>>]
    /\ needsGradient = [n \in Nodes |-> FALSE]
    /\ isPartOfLoop = [n \in Nodes |-> FALSE]
    /\ optimizes = [n \in Nodes |-> {}]
    /\ shouldOptimize = FALSE
    /\ gradInitBy = [n \in Nodes |-> NoNode]
    /\ gradBuf = [n \in Nodes |-> n]
    /\ gradVal = [n \in Nodes |-> 0]
    /\ writers = [n \in Nodes |-> {}]
    /\ zeroFills = [n \in Nodes |-> 0]
    /\ cur = 0
    /\ steps = 0
    /\ err = "none"
    /\ call = NoCall
    /\ log = <<>>

\* the arguments of a call of Unpack
InitUnpack ==
    /\ IdleGrad
    /\ \E layout \in Layouts, junk \in JunkValues, stale \in JunkValues,
          matrixType \in {DENSE, SPARSE}, batchMajor \in BOOLEAN,
          gapPadValue \in {<<>>} \cup {<<v>> : v \in PadValues} :
          uArgs = [layout |-> layout, packedData |-> PackedData(layout, junk),
                   matrixType |-> matrixType, stale |-> stale,
                   batchMajor |-> batchMajor, gapPadValue |-> gapPadValue]
    /\ uOut = <<>>
    /\ IdleBroadcast
    /\ IdleValidate
    /\ IdleAux

\* a thread that is between two iterations
IdleThread == [q |-> 0, cols |-> <<>>, val |-> -1]

\* the arguments of a call of BroadcastToPacked but beta, gatherIndicesVector created
InitBroadcast ==
    /\ IdleGrad
    /\ IdleUnpack
    /\ \E targetLayout \in Layouts \ {NoLayout} :
         \E inputLayout \in InputLayoutsFor(targetLayout),
            fr \in {AllFramesOf} \cup (0..(targetLayout.T - 1)) :
             /\ bArgs = [targetLayout |-> targetLayout, inputLayout |-> inputLayout, fr |-> fr]
             /\ bIdx = NoGatherIndices(targetLayout, fr)
             /\ bWrote = [k \in 0..(BroadcastNumCols(targetLayout, fr) - 1) |-> {}]
    /\ bClaimed = {}
    /\ bThreads = [th \in 1..NUM_THREADS |-> IdleThread]
    /\ bOut = <<>>
    /\ IdleValidate
    /\ IdleAux

(***************************************************************************)
(* Actions.                                                                *)
(***************************************************************************)
\* the scheduler calls Backprop on the node it is visiting
Backprop(fr, childrenInThisLoop, childrenInOuterLoop) ==
    /\ cur \in Nodes
    /\ err = "none"
    /\ steps < MaxSteps
    /\ LET g == BackpropResult(GradNow, cur, fr, childrenInThisLoop, childrenInOuterLoop)
       IN  /\ gradInitBy' = g.by
           /\ gradBuf' = g.buf
           /\ gradVal' = g.val
           /\ writers' = g.writers
           /\ zeroFills' = g.zeroFills
           /\ err' = g.err
           /\ log' = g.log
    /\ call' = [node |-> cur, fr |-> fr, inThis |-> childrenInThisLoop,
                inOuter |-> childrenInOuterLoop,
                by |-> gradInitBy, val |-> gradVal, buf |-> gradBuf,
                zeroFills |-> zeroFills]
    /\ steps' = steps + 1
    /\ UNCHANGED <<inputs, needsGradient, isPartOfLoop, optimizes, shouldOptimize, cur>>
    /\ UNCHANGED <<unpackVars, broadcastVars, validateVars, auxVars>>

\* the scheduler moves on to the next node in reverse topological order
NextNode ==
    /\ cur \in Nodes
    /\ err = "none"
    /\ cur' = cur - 1
    /\ steps' = 0
    /\ call' = NoCall
    /\ log' = <<>>
    /\ UNCHANGED <<inputs, needsGradient, isPartOfLoop, optimizes, shouldOptimize,
                   gradInitBy, gradBuf, gradVal, writers, zeroFills, err>>
    /\ UNCHANGED <<unpackVars, broadcastVars, validateVars, auxVars>>

Next ==
    \/ \E fr \in FrameRanges, a \in BOOLEAN, b \in BOOLEAN : Backprop(fr, a, b)
    \/ NextNode

Spec == Init /\ [][Next]_vars

\* the call of Unpack
CallUnpack ==
    /\ uOut = <<>>
    /\ uArgs # NoUnpackArgs
    /\ uOut' = <<Unpack(uArgs.packedData, uArgs.layout, uArgs.matrixType, uArgs.stale,
                        uArgs.batchMajor, uArgs.gapPadValue)>>
    /\ UNCHANGED <<uArgs, gradVars, broadcastVars, validateVars, auxVars>>

NextUnpack == CallUnpack

SpecUnpack == InitUnpack /\ [][NextUnpack]_vars

\* a thread of the parallel loop takes an iteration no thread has taken
BroadcastTake(th, q) ==
    /\ bArgs # NoBroadcastArgs
    /\ bOut = <<>>
    /\ bThreads[th].cols = <<>>
    /\ q \in (1..Len(bArgs.targetLayout.seqs)) \ bClaimed
    /\ LET w == SequenceGather(bArgs.targetLayout, bArgs.inputLayout, bArgs.fr, q)
       IN  bThreads' = [bThreads EXCEPT ![th] = [q |-> q, cols |-> w.cols, val |-> w.val]]
    /\ bClaimed' = bClaimed \cup {q}
    /\ UNCHANGED <<bArgs, bIdx, bWrote, bOut, gradVars, unpackVars, validateVars, auxVars>>

\* a thread writes the next entry of its iteration
BroadcastWrite(th) ==
    /\ bArgs # NoBroadcastArgs
    /\ bThreads[th].cols # <<>>
    /\ LET i == Head(bThreads[th].cols)
       IN  /\ bIdx' = [bIdx EXCEPT ![i] = bThreads[th].val]
           /\ bWrote' = [bWrote EXCEPT ![i] = @ \cup {bThreads[th].q}]
    /\ bThreads' = [bThreads EXCEPT ![th].cols = Tail(@)]
    /\ UNCHANGED <<bArgs, bClaimed, bOut, gradVars, unpackVars, validateVars, auxVars>>

\* after the parallel loop: the gather into broadcastTo, scaled by beta
BroadcastGather(beta) ==
    /\ bArgs # NoBroadcastArgs
    /\ bOut = <<>>
    /\ bClaimed = 1..Len(bArgs.targetLayout.seqs)
    /\ \A th \in 1..NUM_THREADS : bThreads[th].cols = <<>>
    /\ bOut' = <<[beta |-> beta,
                  data |-> DoGatherColumnsOf(
                               [c \in DOMAIN bIdx |-> PriorValue(c)], beta, bIdx,
                               [c \in 0..(GetNumCols(bArgs.inputLayout) - 1) |-> BroadcastValue(c)])]>>
    /\ UNCHANGED <<bArgs, bIdx, bClaimed, bThreads, bWrote, gradVars, unpackVars, validateVars, auxVars>>

NextBroadcast ==
    \/ \E th \in 1..NUM_THREADS, q \in 1..(MaxSlots * MaxTime * 2) : BroadcastTake(th, q)
    \/ \E th \in 1..NUM_THREADS : BroadcastWrite(th)
    \/ \E beta \in Betas : BroadcastGather(beta)

SpecBroadcast == InitBroadcast /\ [][NextBroadcast]_vars

\* the input lists of k nodes: only the inputs of a binary reduction are
\* distributed operations, and lists of more than two inputs have sample
\* shapes of rank at most MaxRank - 1
ValidatedInputs(k) ==
    [1..k -> InputNodes({PlainOp, LearnableOp} \cup IF k = 2 THEN DistributedOps ELSE {},
                        IF k <= 2 THEN MaxRank ELSE MaxRank - 1)]

\* the node a Validate...() subroutine is called on: one to MaxZipInputs inputs
InitValidate ==
    /\ IdleGrad
    /\ IdleUnpack
    /\ IdleBroadcast
    /\ \E ins \in UNION {ValidatedInputs(k) : k \in 1..MaxZipInputs} :
         vNode = ValidatedNode(ins)
    /\ vCall = <<>>
    /\ IdleAux

\* what a call records: the subroutine, its arguments, the inputs before it
ValidateCall(op, isFinalValidationPass, flag, isV2Library) ==
    <<[op |-> op, isFinalValidationPass |-> isFinalValidationPass, flag |-> flag,
       isV2Library |-> isV2Library, ins |-> vNode.ins]>>

CallValidateUnaryMap(isFinalValidationPass) ==
    /\ vCall = <<>>
    /\ Len(vNode.ins) = 1
    /\ vNode' = ValidateUnaryMap(vNode, isFinalValidationPass)
    /\ vCall' = ValidateCall("ValidateUnaryMap", isFinalValidationPass, FALSE, FALSE)
    /\ UNCHANGED <<gradVars, unpackVars, broadcastVars, auxVars>>

CallValidateBinaryZip(isFinalValidationPass, allowBroadcast) ==
    /\ vCall = <<>>
    /\ Len(vNode.ins) = 2
    /\ vNode' = ValidateBinaryZip(vNode, isFinalValidationPass, allowBroadcast)
    /\ vCall' = ValidateCall("ValidateBinaryZip", isFinalValidationPass, allowBroadcast, FALSE)
    /\ UNCHANGED <<gradVars, unpackVars, broadcastVars, auxVars>>

CallValidateNaryZip(isFinalValidationPass, allowBroadcast) ==
    /\ vCall = <<>>
    /\ Len(vNode.ins) >= 2
    /\ vNode' = ValidateNaryZip(vNode, isFinalValidationPass, allowBroadcast, Len(vNode.ins))
    /\ vCall' = ValidateCall("ValidateNaryZip", isFinalValidationPass, allowBroadcast, FALSE)
    /\ UNCHANGED <<gradVars, unpackVars, broadcastVars, auxVars>>

CallValidateUnaryReduce(isFinalValidationPass, keepDimensions, isV2Library) ==
    /\ vCall = <<>>
    /\ Len(vNode.ins) = 1
    /\ vNode' = ValidateUnaryReduce(vNode, isFinalValidationPass, keepDimensions, isV2Library)
    /\ vCall' = ValidateCall("ValidateUnaryReduce", isFinalValidationPass, keepDimensions, isV2Library)
    /\ UNCHANGED <<gradVars, unpackVars, broadcastVars, auxVars>>

CallValidateBinaryReduce(isFinalValidationPass, isV2Library) ==
    /\ vCall = <<>>
    /\ Len(vNode.ins) = 2
    /\ vNode' = ValidateBinaryReduce(vNode, isFinalValidationPass, isV2Library)
    /\ vCall' = ValidateCall("ValidateBinaryReduce", isFinalValidationPass, FALSE, isV2Library)
    /\ UNCHANGED <<gradVars, unpackVars, broadcastVars, auxVars>>

NextValidate ==
    \/ \E f \in BOOLEAN : CallValidateUnaryMap(f)
    \/ \E f \in BOOLEAN, b \in BOOLEAN : CallValidateBinaryZip(f, b)
    \/ \E f \in BOOLEAN, b \in BOOLEAN : CallValidateNaryZip(f, b)
    \/ \E f \in BOOLEAN, k \in BOOLEAN, v \in BOOLEAN : CallValidateUnaryReduce(f, k, v)
    \/ \E f \in BOOLEAN, v \in BOOLEAN : CallValidateBinaryReduce(f, v)

SpecValidate == InitValidate /\ [][NextValidate]_vars

\* a node with a sample shape and a layout, and a FrameRange over the layout
InitSlice ==
    /\ IdleGrad
    /\ IdleUnpack
    /\ IdleBroadcast
    /\ IdleValidate
    /\ \E shape \in SampleShapes, layout \in SliceLayouts :
         /\ sNode = [shape |-> shape, layout |-> layout]
         /\ sFr \in FrameRangesOf(layout)
    /\ sOut = <<>>
    /\ IdleTrack
    /\ IdleFormat

\* the ranks a caller passes: at least the rank of the sample shape
RanksFor(node) == Len(node.shape)..(MaxRank + 1)

CallGetTensorShape(rank) ==
    /\ sOut = <<>>
    /\ rank \in RanksFor(sNode) \cup {SIZE_MAX}
    /\ sOut' = <<[op |-> "GetTensorShape", rank |-> rank, node |-> sNode,
                  res |-> Returned(GetTensorShape(sNode, rank))]>>
    /\ UNCHANGED <<sNode, sFr, gradVars, unpackVars, broadcastVars, validateVars, trackVars, formatVars>>

CallGetTensorSliceFor(rank) ==
    /\ sOut = <<>>
    /\ rank \in RanksFor(sNode) \cup {SIZE_MAX}
    /\ sOut' = <<[op |-> "GetTensorSliceFor", rank |-> rank, node |-> sNode,
                  res |-> Returned(GetTensorSliceFor(sNode, rank, sFr))]>>
    /\ UNCHANGED <<sNode, sFr, gradVars, unpackVars, broadcastVars, validateVars, trackVars, formatVars>>

CallGetOneSampleTensorSliceFor(rank) ==
    /\ sOut = <<>>
    /\ rank \in RanksFor(sNode)
    /\ sOut' = <<[op |-> "GetOneSampleTensorSliceFor", rank |-> rank, node |-> sNode,
                  res |-> GetOneSampleTensorSliceFor(sNode, rank, sFr)]>>
    /\ UNCHANGED <<sNode, sFr, gradVars, unpackVars, broadcastVars, validateVars, trackVars, formatVars>>

NextSlice ==
    \/ \E rank \in (0..(MaxRank + 1)) \cup {SIZE_MAX} : CallGetTensorShape(rank)
    \/ \E rank \in (0..(MaxRank + 1)) \cup {SIZE_MAX} : CallGetTensorSliceFor(rank)
    \/ \E rank \in 0..(MaxRank + 1) : CallGetOneSampleTensorSliceFor(rank)

SpecSlice == InitSlice /\ [][NextSlice]_vars

\* a node whose forward or backward step has been computed: NaNs may be
\* anywhere in its value and in the gradients of its inputs
InitTrack ==
    /\ IdleGrad
    /\ IdleUnpack
    /\ IdleBroadcast
    /\ IdleValidate
    /\ IdleSlice
    /\ \E layout \in TrackLayouts, hasEnvironment \in BOOLEAN, trackGapNans \in BOOLEAN,
          numInputs \in 0..MaxTrackInputs :
         /\ trackGapNans => hasEnvironment
         /\ \E value \in MatricesFor(layout), m_inputs \in [1..numInputs -> TrackInputs] :
              tNode = [hasEnvironment |-> hasEnvironment, trackGapNans |-> trackGapNans,
                       layout |-> layout, value |-> value, inputs |-> m_inputs]
    /\ tOut = <<>>
    /\ IdleFormat

EndForwardProp ==
    /\ tOut = <<>>
    /\ tNode' = EndForwardPropOf(tNode).node
    /\ tOut' = <<[op |-> "EndForwardProp", err |-> EndForwardPropOf(tNode).err, before |-> tNode]>>
    /\ UNCHANGED <<gradVars, unpackVars, broadcastVars, validateVars, sliceVars, formatVars>>

EndBackprop ==
    /\ tOut = <<>>
    /\ tNode' = EndBackpropOf(tNode).node
    /\ tOut' = <<[op |-> "EndBackprop", err |-> EndBackpropOf(tNode).err, before |-> tNode]>>
    /\ UNCHANGED <<gradVars, unpackVars, broadcastVars, validateVars, sliceVars, formatVars>>

NextTrack ==
    \/ EndForwardProp
    \/ EndBackprop

SpecTrack == InitTrack /\ [][NextTrack]_vars

\* a record as the constructor or an earlier Load left it
InitFormat ==
    /\ IdleGrad
    /\ IdleUnpack
    /\ IdleBroadcast
    /\ IdleValidate
    /\ IdleSlice
    /\ IdleTrack
    /\ fOptions \in {<<o>> : o \in FormattingOptions}
    /\ fStream = <<>>
    /\ fLoaded = <<>>

\* WriteFormattingOptions::Save(fstream)
Save ==
    /\ fOptions # <<>>
    /\ fStream = <<>>
    /\ fStream' = SaveFields(fOptions[1], SaveOrder, Len(SaveOrder))
    /\ UNCHANGED <<fOptions, fLoaded, gradVars, unpackVars, broadcastVars, validateVars, sliceVars, trackVars>>

\* WriteFormattingOptions::Load(fstream, modelVersion) of another record
Load(modelVersion) ==
    /\ fStream # <<>>
    /\ fLoaded = <<>>
    /\ fLoaded' = <<[options |-> RecordOf(LoadFields(fStream, LoadOrder, Len(LoadOrder)).fields),
                     pos |-> LoadFields(fStream, LoadOrder, Len(LoadOrder)).pos]>>
    /\ UNCHANGED <<fOptions, fStream, gradVars, unpackVars, broadcastVars, validateVars, sliceVars, trackVars>>

NextFormat ==
    \/ Save
    \/ \E modelVersion \in 1..2 : Load(modelVersion)

SpecFormat == InitFormat /\ [][NextFormat]_vars

(***************************************************************************)
(* Properties of the backward pass.                                        *)
(***************************************************************************)
LogPos == 1..Len(log)

\* a Backprop call has been made on the node being visited
Called == call.node # NoNode

\* the input positions, over the whole graph, that refer to node c
References(c) ==
    UNION {{<<p, i>> : i \in {j \in 1..Len(inputs[p]) : inputs[p][j] = c}} : p \in Nodes}

RECURSIVE SumWrites(_, _)
\* what the BackpropTo invocations 1..k of the last call added to storage b
SumWrites(b, k) ==
    IF k = 0 THEN 0
    ELSE SumWrites(b, k - 1) +
         (IF log[k].op = "BackpropTo" /\ gradBuf[log[k].node] = b
              THEN Contribution(log[k].by, log[k].idx) ELSE 0)

BufWrites(b) == SumWrites(b, Len(log))

RECURSIVE SumContributions(_, _, _)
\* the sum of the contributions of p to the input positions 1..k that hold c
SumContributions(p, c, k) ==
    IF k = 0 THEN 0
    ELSE SumContributions(p, c, k - 1) +
         (IF inputs[p][k] = c THEN Contribution(p, k) ELSE 0)

\* the BackpropTo invocations of the last call, in program order
BackpropToEvents == SelectSeq(log, LAMBDA e : e.op = "BackpropTo")

\* C1: the first LazyZeroGradient(initializer) call on a node aliases the
\* node's gradient to the initializer (buffer of the initializer,
\* m_gradientInitializedBy = initializer) exactly when the optimization flag is
\* on, the node is in no loop, the initializer reports an optimization for the
\* node and lists it exactly once; otherwise the node's own buffer is
\* zero-filled.  A node with a single reference in the graph, by a parent that
\* reports an optimization for it, in no loop, with the flag on, is aliased to
\* that parent from the parent's propagation to the end of the pass.
C1_FirstLazyZeroGradient ==
    /\ \A k \in LogPos :
        LET e == log[k]
            allFour ==
                /\ shouldOptimize
                /\ ~isPartOfLoop[e.node]
                /\ e.node \in optimizes[e.by]
                /\ Cardinality({i \in 1..Len(inputs[e.by]) : inputs[e.by][i] = e.node}) = 1
        IN  (e.op = "LazyZeroGradient" /\ e.target = "Uninitialized") =>
                IF allFour
                THEN /\ e.res = "alias"
                     /\ gradInitBy[e.node] = e.by
                     /\ gradBuf[e.node] = gradBuf[e.by]
                     /\ zeroFills[e.node] = 0
                ELSE /\ e.res = "zero"
                     /\ gradInitBy[e.node] = e.node
                     /\ gradBuf[e.node] = e.node
                     /\ zeroFills[e.node] = 1
                     /\ gradVal[e.node] = BufWrites(e.node)
    /\ \A c \in Nodes, p \in Nodes :
        (/\ shouldOptimize
         /\ needsGradient[c]
         /\ ~isPartOfLoop[c]
         /\ c \in optimizes[p]
         /\ Cardinality(References(c)) = 1
         /\ \E i \in 1..Len(inputs[p]) : inputs[p][i] = c
         /\ p \in writers[c])
        => gradInitBy[c] = p /\ gradBuf[c] = gradBuf[p]

\* C1 witness: a pass has ended without error and left a singly referenced
\* node aliased to the parent that propagated into it
C1_Witness ==
    /\ cur = 0
    /\ err = "none"
    /\ \E c \in Nodes, p \in Nodes :
        /\ Cardinality(References(c)) = 1
        /\ p \in writers[c]
        /\ gradInitBy[c] = p
        /\ gradBuf[c] = gradBuf[p]
        /\ \E d \in Nodes : d # c /\ gradInitBy[d] = d /\ writers[d] # {}

\* C2: a parent that lists the same gradient-needing child at two input
\* positions never aliases the child's gradient; the child's buffer is
\* zero-filled once (not again before the second BackpropTo) and, when the
\* parent's Backprop initialised it, holds the sum of the contributions of all
\* positions after the call.
C2_DuplicateInputAccumulates ==
    /\ \A p \in Nodes, c \in Nodes :
        Cardinality({i \in 1..Len(inputs[p]) : inputs[p][i] = c}) >= 2 =>
            /\ gradInitBy[c] # p
            /\ zeroFills[c] <= 1
    /\ (Called /\ err = "none") =>
        \A c \in Range(inputs[call.node]) :
            LET p == call.node
                positions == {i \in 1..Len(inputs[p]) : inputs[p][i] = c}
                invoked == {k \in 1..Len(BackpropToEvents) : BackpropToEvents[k].node = c}
            IN  (Cardinality(positions) >= 2 /\ invoked # {} /\ call.by[c] = NoNode) =>
                    /\ Cardinality(invoked) = Cardinality(positions)
                    /\ gradInitBy[c] = c
                    /\ zeroFills[c] = 1
                    /\ gradVal[gradBuf[c]] = SumContributions(p, c, Len(inputs[p]))

\* C2 witness: Backprop has propagated twice into a child that its node lists
\* twice and could otherwise have aliased
C2_Witness ==
    /\ Called
    /\ err = "none"
    /\ \E c \in Range(inputs[call.node]) :
        /\ Cardinality({i \in 1..Len(inputs[call.node]) : inputs[call.node][i] = c}) = 2
        /\ Cardinality({k \in 1..Len(BackpropToEvents) : BackpropToEvents[k].node = c}) = 2
        /\ call.by[c] = NoNode
        /\ shouldOptimize /\ ~isPartOfLoop[c] /\ c \in optimizes[call.node]
        /\ gradVal[gradBuf[c]] = 3

\* C3: a LazyZeroGradient call on a node whose gradient is already initialised
\* in this pass, by the same or another initializer, changes nothing: the
\* state stays Zeroed or AliasedToParent as the first call decided, the buffer
\* stays the same and its contents are what was accumulated.
C3_SecondLazyZeroIsNoOp ==
    Called =>
        /\ \A k \in LogPos :
            (log[k].op = "LazyZeroGradient" /\ log[k].target # "Uninitialized") =>
                log[k].res = "noop"
        /\ \A n \in Nodes :
            call.by[n] # NoNode =>
                /\ gradInitBy[n] = call.by[n]
                /\ gradBuf[n] = call.buf[n]
                /\ zeroFills[n] = call.zeroFills[n]
        /\ \A b \in Nodes :
            gradVal[b] = (IF zeroFills[b] > call.zeroFills[b] THEN 0 ELSE call.val[b])
                         + BufWrites(b)

\* C3 witness: one Backprop call has repeated LazyZeroGradient on a zeroed node
\* and on a node aliased to another parent, both holding contributions
C3_Witness ==
    /\ Called
    /\ \E k \in LogPos, l \in LogPos :
        /\ log[k].op = "LazyZeroGradient" /\ log[k].res = "noop"
        /\ log[k].target = "Zeroed" /\ log[k].idx > 0
        /\ writers[log[k].node] # {}
        /\ log[l].op = "LazyZeroGradient" /\ log[l].res = "noop"
        /\ log[l].target = "AliasedToParent"
        /\ gradInitBy[log[l].node] # log[l].by
\* the nodes that list c among their inputs
Consumers(c) == {p \in Nodes : \E i \in 1..Len(inputs[p]) : inputs[p][i] = c}

\* every node with an input that needs a gradient needs one itself
GradientNeedsPropagated ==
    \A p \in Nodes : \A i \in 1..Len(inputs[p]) :
        needsGradient[inputs[p][i]] => needsGradient[p]

\* C4: a gradient aliased to a parent P has P as its single writer (stated for
\* graphs in which the need for a gradient is propagated to the consumers): no
\* other node invokes BackpropTo into it, the node has exactly one consumer and
\* it is in no loop.
C4_AliasedHasSingleWriter ==
    \A c \in Nodes :
        (/\ GradientNeedsPropagated
         /\ needsGradient[c] /\ gradInitBy[c] # NoNode /\ gradInitBy[c] # c) =>
            /\ writers[c] \subseteq {gradInitBy[c]}
            /\ Cardinality(Consumers(c)) = 1
            /\ ~isPartOfLoop[c]

\* the input positions of the last call's node that need a gradient and lie in
\* the requested partition
SelectedPositions ==
    {i \in 1..Len(inputs[call.node]) :
        /\ needsGradient[inputs[call.node][i]]
        /\ \/ call.inThis /\ isPartOfLoop[inputs[call.node][i]] = isPartOfLoop[call.node]
           \/ call.inOuter /\ isPartOfLoop[inputs[call.node][i]] # isPartOfLoop[call.node]}

\* the input positions of the last call for which BackpropTo was invoked
InvokedPositions == {BackpropToEvents[k].idx : k \in 1..Len(BackpropToEvents)}

\* C5 as stated: on a node in a loop with childrenInThisLoop, a whole-batch
\* frame range raises LogicError, and a per-time-step frame range raises no
\* error and propagates to the children of the same loop.
C5_PerStepAlwaysSucceeds ==
    (Called /\ isPartOfLoop[call.node] /\ call.inThis) =>
        IF call.fr = AllFrames
        THEN err = "LogicError"
        ELSE /\ err = "none"
             /\ \A i \in 1..Len(inputs[call.node]) :
                 (needsGradient[inputs[call.node][i]] /\ isPartOfLoop[inputs[call.node][i]])
                     => i \in InvokedPositions

\* C5 as amended: on a node in a loop with childrenInThisLoop, a whole-batch
\* frame range raises LogicError before any BackpropTo; a per-time-step frame
\* range raises no whole-batch error: the call succeeds, and propagates to
\* every gradient-needing child of the same loop, exactly when the node needs
\* a gradient (or selects no input) and selects no input outside the loop.
C5_LoopSafety ==
    (Called /\ isPartOfLoop[call.node] /\ call.inThis) =>
        IF call.fr = AllFrames
        THEN err = "LogicError" /\ BackpropToEvents = <<>>
        ELSE LET blocked ==
                     \/ SelectedPositions # {} /\ ~needsGradient[call.node]
                     \/ \E i \in SelectedPositions : ~isPartOfLoop[inputs[call.node][i]]
             IN  /\ (err = "none") <=> ~blocked
                 /\ err = "none" =>
                     \A i \in 1..Len(inputs[call.node]) :
                         (needsGradient[inputs[call.node][i]] /\ isPartOfLoop[inputs[call.node][i]])
                             => i \in InvokedPositions

\* C5 witness: a per-time-step Backprop on a node in a loop has propagated to
\* a child of the same loop
C5_Witness ==
    /\ Called
    /\ isPartOfLoop[call.node]
    /\ call.inThis
    /\ call.fr = OneStep
    /\ err = "none"
    /\ \E i \in InvokedPositions : isPartOfLoop[inputs[call.node][i]]

\* C6: Backprop on a node in a loop with a per-time-step frame range raises
\* LogicError once it selects a gradient-needing input outside any loop, and
\* BackpropTo is invoked neither for that input nor for a later one.
C6_LoopToNonLoopRejected ==
    (Called /\ isPartOfLoop[call.node] /\ call.fr # AllFrames) =>
        \A i \in 1..Len(inputs[call.node]) :
            (/\ needsGradient[inputs[call.node][i]]
             /\ ~isPartOfLoop[inputs[call.node][i]]
             /\ call.inOuter)
            => /\ err = "LogicError"
               /\ \A j \in InvokedPositions : j < i

\* C6 witness: the call propagated into a child of the loop and was then
\* rejected at a later input outside the loop, whose gradient it had
\* initialised
C6_Witness ==
    /\ Called
    /\ isPartOfLoop[call.node]
    /\ call.fr = OneStep
    /\ err = "LogicError"
    /\ InvokedPositions = {1}
    /\ ~isPartOfLoop[inputs[call.node][2]]
    /\ needsGradient[call.node]
    /\ call.by[inputs[call.node][2]] = NoNode
    /\ gradInitBy[inputs[call.node][2]] # NoNode

\* C7: a Backprop call that raises no error invokes BackpropTo(i, fr) once for
\* each input position whose node needs a gradient and lies in the requested
\* partition, in increasing order of i; for any other input it invokes neither
\* LazyZeroGradient nor BackpropTo and leaves the gradient state unchanged.
C7_SelectedInputsOnly ==
    (Called /\ err = "none") =>
        /\ Len(BackpropToEvents) = Cardinality(SelectedPositions)
        /\ \A k \in 1..Len(BackpropToEvents) :
            /\ BackpropToEvents[k].idx \in SelectedPositions
            /\ BackpropToEvents[k].by = call.node
            /\ BackpropToEvents[k].node = inputs[call.node][BackpropToEvents[k].idx]
            /\ BackpropToEvents[k].res = call.fr
        /\ \A k \in 1..Len(BackpropToEvents), l \in 1..Len(BackpropToEvents) :
            k < l => BackpropToEvents[k].idx < BackpropToEvents[l].idx
        /\ \A i \in (1..Len(inputs[call.node])) \ SelectedPositions :
            /\ \A k \in LogPos : log[k].idx # i
            /\ gradInitBy[inputs[call.node][i]] = call.by[inputs[call.node][i]]
            /\ gradBuf[inputs[call.node][i]] = call.buf[inputs[call.node][i]]

\* C7 witness: a call without error that propagated into one of two inputs and
\* skipped the other, which needs a gradient but lies in the other partition
C7_Witness ==
    /\ Called
    /\ err = "none"
    /\ Len(inputs[call.node]) = 2
    /\ Cardinality(SelectedPositions) = 1
    /\ Len(BackpropToEvents) = 1
    /\ \E i \in (1..2) \ SelectedPositions :
        /\ needsGradient[inputs[call.node][i]]
        /\ gradInitBy[inputs[call.node][i]] = NoNode

\* C8: every BackpropTo(i, fr) comes after the lazy initialisation of the
\* propagating node's own gradient and of input i's gradient: neither gradient
\* is Uninitialized when BackpropTo is invoked.
C8_InitialisedBeforeBackpropTo ==
    \A k \in LogPos :
        log[k].op = "BackpropTo" =>
            /\ log[k].self \in {"Zeroed", "AliasedToParent"}
            /\ log[k].target \in {"Zeroed", "AliasedToParent"}
            /\ log[1].op = "LazyZeroGradient" /\ log[1].node = log[k].by /\ log[1].idx = 0
            /\ \E j \in 1..(k - 1) :
                /\ log[j].op = "LazyZeroGradient"
                /\ log[j].node = log[k].node
                /\ log[j].idx = log[k].idx

\* C8 witness: a call that found its node's gradient and an input's gradient
\* uninitialised, initialised both and then invoked BackpropTo
C8_Witness ==
    /\ Called
    /\ call.by[call.node] = NoNode
    /\ \E k \in LogPos :
        /\ log[k].op = "BackpropTo"
        /\ call.by[log[k].node] = NoNode
        /\ log[k].target = "AliasedToParent"
(***************************************************************************)
(* Properties of Unpack.                                                   *)
(***************************************************************************)
\* the real sequences of a layout in the order of its sequence table
RealSequences(layout) == SelectSeq(layout.seqs, LAMBDA q : q.seqId # GAP_SEQUENCE_ID)

\* the call of Unpack has returned
Unpacked == uOut # <<>>

\* the unpacked cell (sequence i, time j) of the returned view holds value x
UnpackedCellIs(i, j, x) ==
    LET n == Len(RealSequences(uArgs.layout))
        dest == IF uArgs.batchMajor THEN (j * n) + i ELSE (i * uArgs.layout.T) + j
    IN  dest \in DOMAIN uOut[1].data /\ uOut[1].data[dest] = x

\* the number of time steps of a sequence that lie in the minibatch
LengthIn(layout, info) == Min2(layout.T, info.tEnd) - Max2(0, info.tBegin)

\* the packed column of time step j of a sequence
PackedColumn(layout, info, j) == ((Max2(0, info.tBegin) + j) * layout.S) + info.s

\* every cell of a real sequence holds the packed column of its time step
RealCellsKept ==
    \A i \in 0..(Len(RealSequences(uArgs.layout)) - 1), j \in 0..(uArgs.layout.T - 1) :
        LET info == RealSequences(uArgs.layout)[i + 1]
        IN  j < LengthIn(uArgs.layout, info) =>
                UnpackedCellIs(i, j, uArgs.packedData[PackedColumn(uArgs.layout, info, j)])

\* every cell beyond the length of its sequence holds the gap pad value
GapCellsPadded ==
    \A i \in 0..(Len(RealSequences(uArgs.layout)) - 1), j \in 0..(uArgs.layout.T - 1) :
        LET info == RealSequences(uArgs.layout)[i + 1]
        IN  j >= LengthIn(uArgs.layout, info) => UnpackedCellIs(i, j, uArgs.gapPadValue[1])

\* the gaps of the layout trail the sequences of their slot
GapsTrail(layout) ==
    \A s \in 0..(layout.S - 1), t \in 0..(layout.T - 2) :
        IsGapCell(layout, s, t) => IsGapCell(layout, s, t + 1)

\* the sequence table lists the entries slot by slot
InSlotOrder(layout) ==
    \A q \in 1..(Len(layout.seqs) - 1) :
        \/ layout.seqs[q].s < layout.seqs[q + 1].s
        \/ layout.seqs[q].s = layout.seqs[q + 1].s /\ layout.seqs[q].tBegin < layout.seqs[q + 1].tBegin

\* the sequences occupy the lowest slots: a slot of gaps is followed by none
\* that holds a sequence
LowSlotsFirst(layout) ==
    \A s \in 0..(layout.S - 2) :
        IsGapCell(layout, s, 0) => IsGapCell(layout, s + 1, 0)

\* C9: for every layout with gaps (stated for the layouts a reader builds:
\* sequences in the lowest slots, gaps trailing them, the table in slot order),
\* both memory orders and every gap pad value v, Unpack yields v in every
\* unpacked cell beyond its sequence's length and leaves every cell of a real
\* sequence equal to the packed column of that sequence and time step.
C9_GapsPaddedCellsKept ==
    (/\ Unpacked
     /\ uArgs.layout # NoLayout
     /\ HasGaps(uArgs.layout)
     /\ GapsTrail(uArgs.layout)
     /\ LowSlotsFirst(uArgs.layout)
     /\ InSlotOrder(uArgs.layout)
     /\ uArgs.gapPadValue # <<>>) =>
        RealCellsKept /\ GapCellsPadded

\* C10: for a layout without gaps the unpacked cell (sequence i, time j), at
\* column j * numSequences + i in batch-major and i * numTimeSteps + j in
\* sequence-major order, holds the packed column of the i-th real sequence at
\* its j-th time step, on the fast path and on the scatter path.
C10_RoundTripWithoutGaps ==
    (Unpacked /\ uArgs.layout # NoLayout /\ ~HasGaps(uArgs.layout)) => RealCellsKept

\* scatterIndicesVector of the last call of Unpack, as its loops leave it
ScatterIdxOfCall ==
    ScatterIndices(uArgs.layout, uArgs.batchMajor, uArgs.gapPadValue # <<>>).idx

\* C11: in the scatter path of Unpack the index vector holds no destination
\* twice: the packed columns of real sequences map to pairwise different
\* destination columns in [0, numSequences * numTimeSteps), and every packed
\* column that no real sequence covers keeps the value -1.
C11_ScatterIndicesDistinct ==
    (Unpacked /\ ~UnpackFastPath(uArgs.layout, uArgs.batchMajor)) =>
        LET layout == uArgs.layout
            idx == ScatterIdxOfCall
            width == GetNumSequences(layout) * GetNumTimeSteps(layout)
        IN  /\ DOMAIN idx = 0..(GetNumCols(layout) - 1)
            /\ \A k \in DOMAIN idx :
                   IF IsGapCell(layout, k % layout.S, k \div layout.S)
                   THEN idx[k] = -1
                   ELSE idx[k] \in 0..(width - 1)
            /\ \A k1, k2 \in DOMAIN idx :
                   (k1 # k2 /\ idx[k1] # -1) => idx[k1] # idx[k2]

\* C11 witness: a scatter-path call on a layout with gaps and three sequences
C11_Witness ==
    /\ Unpacked
    /\ ~UnpackFastPath(uArgs.layout, uArgs.batchMajor)
    /\ HasGaps(uArgs.layout)
    /\ GetNumSequences(uArgs.layout) = 3
    /\ \E k \in DOMAIN ScatterIdxOfCall : ScatterIdxOfCall[k] = 2
    /\ \E k \in DOMAIN ScatterIdxOfCall : ScatterIdxOfCall[k] = -1

(***************************************************************************)
(* Properties of BroadcastToPacked.                                        *)
(***************************************************************************)
\* the parallel loop of the call is over
Broadcast == bOut # <<>>

\* the input-layout column of the first frame of the sequence with the id
SourceColumn(inputLayout, id) ==
    CHOOSE c \in 0..(GetNumCols(inputLayout) - 1) :
        \E q \in 1..Len(inputLayout.seqs) :
            /\ inputLayout.seqs[q].seqId = id
            /\ c = (inputLayout.seqs[q].tBegin * inputLayout.S) + inputLayout.seqs[q].s

\* the real sequences of the target that cover the cell (s, t)
RealAt(layout, s, t) ==
    {q \in RealPositions(layout) : Covers(layout.seqs[q], s, t)}

\* what the gather index of the cell (s, t) of the target has to be
ExpectedGatherIndex(s, t) ==
    IF RealAt(bArgs.targetLayout, s, t) = {} THEN -1
    ELSE LET q == CHOOSE r \in RealAt(bArgs.targetLayout, s, t) : TRUE
         IN  SourceColumn(bArgs.inputLayout, bArgs.targetLayout.seqs[q].seqId)

\* C12: the gather-index vector BroadcastToPacked builds holds, for a
\* whole-batch target range, in every column of a real sequence the
\* input-layout column of the first frame of the sequence with the same id,
\* and for a single time step t, in the column of every slot whose real
\* sequence is active at t, that source column; every other entry is -1.
C12_GatherIndices ==
    Broadcast =>
        LET S == bArgs.targetLayout.S
            T == bArgs.targetLayout.T
        IN  IF bArgs.fr = AllFramesOf
            THEN /\ DOMAIN bIdx = 0..((S * T) - 1)
                 /\ \A s \in 0..(S - 1), t \in 0..(T - 1) :
                        bIdx[(t * S) + s] = ExpectedGatherIndex(s, t)
            ELSE /\ DOMAIN bIdx = 0..(S - 1)
                 /\ \A s \in 0..(S - 1) : bIdx[s] = ExpectedGatherIndex(s, bArgs.fr)

\* C12 witness: a finished call for one time step whose vector holds a source
\* column other than the slot itself and an entry left at -1
C12_Witness ==
    /\ Broadcast
    /\ bArgs.fr # AllFramesOf
    /\ \E s \in DOMAIN bIdx : bIdx[s] # -1 /\ bIdx[s] # s
    /\ \E s \in DOMAIN bIdx : bIdx[s] = -1

\* C13: no entry of the gather-index vector is written by two iterations of
\* the parallel loop, and whatever the interleaving of the two threads the
\* finished vector is the one sequential execution of the loop produces.
C13_IterationsDisjoint ==
    bArgs # NoBroadcastArgs =>
        /\ \A k \in DOMAIN bWrote : Cardinality(bWrote[k]) <= 1
        /\ Broadcast =>
               bIdx = GatherIndicesFrom(NoGatherIndices(bArgs.targetLayout, bArgs.fr),
                                        bArgs.targetLayout, bArgs.inputLayout, bArgs.fr, 1)

\* C13 witness: both threads are in the middle of an iteration, the later
\* sequence of the table already has an entry written and the earlier not
C13_Witness ==
    /\ bArgs # NoBroadcastArgs
    /\ \A th \in 1..NUM_THREADS : bThreads[th].cols # <<>>
    /\ \E k \in DOMAIN bWrote :
           /\ bWrote[k] # {}
           /\ \A q \in bWrote[k] : \E th \in 1..NUM_THREADS : bThreads[th].q < q

(***************************************************************************)
(* Properties of the Validate...() subroutines.                            *)
(***************************************************************************)
\* the subroutine op has been called on the node
Validated(op) == vCall # <<>> /\ vCall[1].op = op

\* the sample shape of input i before the call, padded with ones to the rank
ShapeBefore(i, rank) == PadOnes(vCall[1].ins[i].shape, rank)

\* the highest rank of the inputs before the call
RankBefore ==
    CHOOSE r \in 0..MaxRank :
        /\ \E i \in 1..Len(vCall[1].ins) : Len(vCall[1].ins[i].shape) = r
        /\ \A i \in 1..Len(vCall[1].ins) : Len(vCall[1].ins[i].shape) <= r

\* some dimension has two concrete (> 1) unequal values among the inputs
ConcreteMismatch ==
    \E k \in 1..RankBefore : \E i, j \in 1..Len(vCall[1].ins) :
        /\ Len(vCall[1].ins[i].shape) >= k /\ vCall[1].ins[i].shape[k] > 1
        /\ Len(vCall[1].ins[j].shape) >= k /\ vCall[1].ins[j].shape[k] > 1
        /\ vCall[1].ins[i].shape[k] # vCall[1].ins[j].shape[k]

\* C14: ValidateUnaryMap gives the node the sample shape of its input and the
\* layout of its input (none when the input has none), on final and non-final
\* validation passes alike.
C14_UnaryMapCopiesInput ==
    Validated("ValidateUnaryMap") =>
        /\ vNode.err = "none"
        /\ vNode.shape = vCall[1].ins[1].shape
        /\ vNode.layout = vCall[1].ins[1].layout

\* C14 witness: a non-final pass has installed a layout other than the one
\* the node had, and a shape of rank two
C14_Witness ==
    /\ Validated("ValidateUnaryMap")
    /\ ~vCall[1].isFinalValidationPass
    /\ vNode.layout = 2
    /\ Len(vNode.shape) = 2

\* C15: on the final validation pass ValidateBinaryZip fails with
\* InvalidArgument exactly when some dimension has two concrete unequal
\* values; otherwise the output has the higher rank and, per dimension of the
\* shapes padded with trailing ones, the other side's value when one side is
\* 0 or 1.
C15_BinaryZipBroadcasts ==
    (Validated("ValidateBinaryZip") /\ vCall[1].isFinalValidationPass) =>
        IF ConcreteMismatch
        THEN vNode.err = "InvalidArgument"
        ELSE /\ vNode.err = "none"
             /\ Len(vNode.shape) = RankBefore
             /\ \A k \in 1..RankBefore :
                    LET a == ShapeBefore(1, RankBefore)[k]
                        b == ShapeBefore(2, RankBefore)[k]
                    IN  /\ a <= 1 /\ b > 1 => vNode.shape[k] = b
                        /\ b <= 1 /\ a > 1 => vNode.shape[k] = a
                        /\ a > 1 /\ b > 1 => vNode.shape[k] = a
                        /\ a <= 1 /\ b <= 1 => vNode.shape[k] \in {a, b}

\* C15 witness: [3,1] zipped with [1,2] has given [3,2] on the final pass
C15_Witness ==
    /\ Validated("ValidateBinaryZip")
    /\ vCall[1].isFinalValidationPass
    /\ vCall[1].ins[1].shape = <<3, 1>>
    /\ vCall[1].ins[2].shape = <<1, 2>>
    /\ vNode.err = "none"
    /\ vNode.shape = <<3, 2>>

\* the largest of a non-empty set of numbers
MaxOf(S) == CHOOSE m \in S : \A x \in S : x <= m

\* C16: ValidateNaryZip fails exactly when in some dimension two inputs have
\* different concrete values; otherwise the output rank is the highest input
\* rank and each output dimension is the largest value of that dimension
\* across the inputs, a missing trailing dimension counting as 1.
C16_NaryZipTakesMaximum ==
    Validated("ValidateNaryZip") =>
        IF ConcreteMismatch
        THEN vNode.err = "InvalidArgument"
        ELSE /\ vNode.err = "none"
             /\ Len(vNode.shape) = RankBefore
             /\ \A k \in 1..RankBefore :
                    vNode.shape[k] =
                        MaxOf({ShapeBefore(i, RankBefore)[k] : i \in 1..Len(vCall[1].ins)})

\* C17: on a non-final validation pass a shape mismatch between the inputs
\* makes neither ValidateBinaryZip nor ValidateNaryZip fail.
C17_NonFinalPassTolerates ==
    (/\ Validated("ValidateBinaryZip") \/ Validated("ValidateNaryZip")
     /\ ~vCall[1].isFinalValidationPass) =>
        vNode.err = "none"

\* C18: after ValidateUnaryReduce or ValidateBinaryReduce has returned without
\* error, on any pass, the node has no layout and the scalar shape, but the
\* sample shape of its input after ValidateUnaryReduce with keepDimensions.
C18_ReduceDropsLayout ==
    ((Validated("ValidateUnaryReduce") \/ Validated("ValidateBinaryReduce")) /\ vNode.err = "none") =>
        /\ vNode.layout = NoMBLayout
        /\ vNode.shape =
               IF vCall[1].op = "ValidateUnaryReduce" /\ vCall[1].flag
               THEN vCall[1].ins[1].shape
               ELSE Scalar(vCall[1].isV2Library)

\* C18 witness: a unary reduction that keeps dimensions has taken over a
\* shape of rank two from an input with a layout
C18_Witness ==
    /\ Validated("ValidateUnaryReduce")
    /\ vCall[1].flag
    /\ vCall[1].ins[1].layout # NoMBLayout
    /\ vNode.shape = <<2, 3>>
    /\ vNode.layout = NoMBLayout

\* C19: on the final validation pass ValidateBinaryReduce fails with
\* LogicError whenever input 0 or input 1 has no layout, whatever the
\* operations and sample shapes of the inputs.
C19_BinaryReduceNeedsLayouts ==
    (/\ Validated("ValidateBinaryReduce")
     /\ vCall[1].isFinalValidationPass
     /\ ~HasMBLayout(vCall[1].ins[1]) \/ ~HasMBLayout(vCall[1].ins[2])) =>
        vNode.err = "LogicError"

\* C20: a failure caused by incompatible input dimensions is an
\* InvalidArgument: ValidateBinaryZip and ValidateNaryZip raise no LogicError,
\* and ValidateBinaryReduce, called on two inputs that carry layouts and have
\* two concrete unequal values in some dimension, raises no LogicError either.
C20_MismatchIsInvalidArgument ==
    /\ (Validated("ValidateBinaryZip") \/ Validated("ValidateNaryZip")) =>
           vNode.err # "LogicError"
    /\ (/\ Validated("ValidateBinaryReduce")
        /\ HasMBLayout(vNode.ins[1]) /\ HasMBLayout(vNode.ins[2])
        /\ ConcreteMismatch) =>
           vNode.err # "LogicError"

\* two inputs of the call carry layouts, and the layouts differ
LayoutsDiffer ==
    \E i, j \in 1..Len(vCall[1].ins) :
        /\ HasMBLayout(vCall[1].ins[i]) /\ HasMBLayout(vCall[1].ins[j])
        /\ vCall[1].ins[i].layout # vCall[1].ins[j].layout

\* C21: when two inputs of ValidateBinaryZip or ValidateNaryZip carry
\* different layouts, a non-final pass does not fail because of them, and the
\* final validation pass fails with an error.
C21_LayoutMismatchFatalOnFinalPass ==
    (/\ Validated("ValidateBinaryZip") \/ Validated("ValidateNaryZip")
     /\ LayoutsDiffer) =>
        IF vCall[1].isFinalValidationPass
        THEN vNode.err # "none"
        ELSE ~ConcreteMismatch => vNode.err = "none"

\* the outcome of a validation: the error, and the shape and layout set
\* when there is none
SameOutcome(a, b) ==
    /\ a.err = b.err
    /\ a.err = "none" => a.shape = b.shape /\ a.layout = b.layout

\* C28: on the final validation pass ValidateNaryZip with numInputs = 2 and
\* ValidateBinaryZip, called on the same two inputs, both fail with
\* InvalidArgument or both succeed with the same output shape and layout.
C28_NaryZipOfTwoIsBinaryZip ==
    /\ (Validated("ValidateBinaryZip") /\ vCall[1].isFinalValidationPass) =>
           /\ vNode.err \in {"none", "InvalidArgument"}
           /\ SameOutcome(vNode, ValidateNaryZip(ValidatedNode(vCall[1].ins), TRUE, vCall[1].flag, 2))
    /\ (/\ Validated("ValidateNaryZip")
        /\ Len(vCall[1].ins) = 2
        /\ vCall[1].isFinalValidationPass) =>
           /\ vNode.err \in {"none", "InvalidArgument"}
           /\ SameOutcome(vNode, ValidateBinaryZip(ValidatedNode(vCall[1].ins), TRUE, vCall[1].flag))

\* C28 witness: ValidateNaryZip of two inputs of different rank, one with an
\* unset dimension, has succeeded on the final pass
C28_Witness ==
    /\ Validated("ValidateNaryZip")
    /\ vCall[1].isFinalValidationPass
    /\ vCall[1].ins[1].shape = <<3>>
    /\ vCall[1].ins[2].shape = <<3, 0>>
    /\ Len(vCall[1].ins) = 2
    /\ vNode.err = "none"
    /\ vNode.shape = <<3, 1>>

Queried(op) == sOut # <<>> /\ sOut[1].op = op

\* the packed columns of the layout the FrameRange of the query refers to
ColumnsReferredTo ==
    {(t * sNode.layout.S) + q :
        t \in IF sFr.timeIdxInSeq = SIZE_MAX THEN 0..(sNode.layout.T - 1) ELSE {sFr.timeIdxInSeq},
        q \in IF sFr.seqIndex = SIZE_MAX THEN 0..(sNode.layout.S - 1) ELSE {sFr.seqIndex}}

\* C22: GetOneSampleTensorSliceFor(rank, fr) raises LogicError when fr does not
\* refer to exactly one packed column of the node's layout; otherwise with a
\* layout it returns a shape of rank exactly rank, the sample shape padded
\* with ones, and without a layout what GetTensorSliceFor(rank, fr) returns.
\* No query changes the node.
C22_OneSampleSlice ==
    /\ sOut # <<>> => sNode = sOut[1].node
    /\ Queried("GetOneSampleTensorSliceFor") =>
           IF sNode.layout = NoLayout
           THEN sOut[1].res = Returned(GetTensorSliceFor(sNode, sOut[1].rank, sFr))
           ELSE IF Cardinality(ColumnsReferredTo) # 1
           THEN sOut[1].res.err = "LogicError"
           ELSE /\ sOut[1].res.err = "none"
                /\ Len(sOut[1].res.shape.dims) = sOut[1].rank
                /\ sOut[1].res.shape.dims = PadOnes(sNode.shape, sOut[1].rank)

\* C22 witness: the slice of time step 1 of sequence 1 of a node with sample
\* shape [2] and a layout of two slots and two steps, asked for with rank 2
C22_Witness ==
    /\ Queried("GetOneSampleTensorSliceFor")
    /\ sNode.shape = <<2>>
    /\ sNode.layout = DenseLayout(2, 2)
    /\ sFr = [timeIdxInSeq |-> 1, seqIndex |-> 1]
    /\ sOut[1].rank = 2
    /\ sOut[1].res.err = "none"
    /\ sOut[1].res.shape.dims = <<2, 1>>
    /\ sOut[1].res.shape.offset = 6

(***************************************************************************)
(* Properties of the NaN check.                                            *)
(***************************************************************************)
\* the step op of the node has been ended
Ended(op) == tOut # <<>> /\ tOut[1].op = op

\* the columns of a matrix with this layout that are not gaps
NonGapColumns(data, layout) ==
    {k \in DOMAIN data : layout = NoLayout \/ ~IsGapCell(layout, k % layout.S, k \div layout.S)}

\* a NaN in a column that is not a gap
NanOutsideGaps(data, layout) == \E k \in NonGapColumns(data, layout) : data[k] = "NaN"

\* a NaN in a gap column and none elsewhere
NanOnlyInGaps(data, layout) == HasNan(data) /\ ~NanOutsideGaps(data, layout)

\* C23: without trackGapNans EndForwardProp and EndBackprop raise nothing and
\* touch nothing.  With it EndBackprop raises LogicError exactly when the
\* gradient of some gradient-needing input has a NaN outside the gap columns,
\* EndForwardProp exactly when the node's value has one, and the gap columns
\* of what was checked without error held zero when tested.
C23_NanOnlyOutsideGapsIsFatal ==
    tOut # <<>> =>
        LET before == tOut[1].before
        IN  IF ~TrackingGapNans(before)
            THEN tOut[1].err = "none" /\ tNode = before
            ELSE /\ tOut[1].err \in {"none", "LogicError"}
                 /\ Ended("EndForwardProp") =>
                        /\ tOut[1].err = "LogicError" <=> NanOutsideGaps(before.value, before.layout)
                        /\ tOut[1].err = "LogicError" =>
                               \A k \in DOMAIN tNode.value :
                                   tNode.value[k] = IF k \in NonGapColumns(before.value, before.layout)
                                                    THEN before.value[k] ELSE "zero"
                 /\ Ended("EndBackprop") =>
                        /\ tOut[1].err = "LogicError" <=>
                               \E i \in 1..Len(before.inputs) :
                                   /\ before.inputs[i].needsGradient
                                   /\ NanOutsideGaps(before.inputs[i].gradient, before.inputs[i].layout)
                        /\ tOut[1].err = "none" =>
                               \A i \in 1..Len(before.inputs) :
                                   before.inputs[i].needsGradient =>
                                       \A k \in DOMAIN tNode.inputs[i].gradient :
                                           tNode.inputs[i].gradient[k] =
                                               IF k \in NonGapColumns(before.inputs[i].gradient,
                                                                      before.inputs[i].layout)
                                               THEN before.inputs[i].gradient[k] ELSE "zero"

\* C23 witness: EndBackprop with trackGapNans ends without error although the
\* gradient of a gradient-needing input held a NaN, in a gap column
C23_Witness ==
    /\ Ended("EndBackprop")
    /\ TrackingGapNans(tOut[1].before)
    /\ tOut[1].err = "none"
    /\ \E i \in 1..Len(tOut[1].before.inputs) :
           /\ tOut[1].before.inputs[i].needsGradient
           /\ NanOnlyInGaps(tOut[1].before.inputs[i].gradient, tOut[1].before.inputs[i].layout)
           /\ ~HasNan(tNode.inputs[i].gradient)

(***************************************************************************)
(* Properties of WriteFormattingOptions::Save and Load.                    *)
(***************************************************************************)
\* the fields the persisted record is said to consist of, in order: the
\* category, sparse and transpose flags, prologue and epilogue, the five
\* separator strings, the precision format
ListedOrder ==
    <<"isCategoryLabel", "isSparse", "transpose", "prologue", "epilogue",
      "sequenceSeparator", "sequencePrologue", "sequenceEpilogue", "elementSeparator",
      "sampleSeparator", "precisionFormat">>

\* Load has read the whole stream and restored every field
Restored ==
    /\ fLoaded[1].options = fOptions[1]
    /\ fLoaded[1].pos = Len(fStream) + 1

\* C24 as stated: the stream Save produces consists of the category, sparse
\* and transpose flags, prologue and epilogue, the five separator strings and
\* the precision format, in this order, and Load restores every field from it.
C24_ListedFieldsRoundTrip ==
    /\ fStream # <<>> => fStream = SaveFields(fOptions[1], ListedOrder, Len(ListedOrder))
    /\ fLoaded # <<>> => Restored

\* C24: Save writes and Load reads the category flag, the label mapping
\* file, the sparse and transpose flags, prologue and epilogue, the five
\* separator strings and the precision format, in this order, and Load
\* applied to the stream Save produced restores every field.
C24_SaveLoadRoundTrip ==
    /\ SaveOrder = LoadOrder
    /\ fStream # <<>> => fStream = SaveFields(fOptions[1], <<"isCategoryLabel", "labelMappingFile">>, 2)
                                     \o SaveFields(fOptions[1], SubSeq(ListedOrder, 2, Len(ListedOrder)),
                                                   Len(ListedOrder) - 1)
    /\ fLoaded # <<>> => Restored

\* C24 witness: a record with a label mapping file, sparse but not transposed
\* and with different prologue and epilogue has been saved and loaded again
C24_Witness ==
    /\ fLoaded # <<>>
    /\ fOptions[1].labelMappingFile # <<>>
    /\ fOptions[1].isSparse /\ ~fOptions[1].transpose
    /\ fOptions[1].prologue # fOptions[1].epilogue
    /\ fLoaded[1].options.isSparse /\ ~fLoaded[1].options.transpose
    /\ fLoaded[1].options.labelMappingFile = fOptions[1].labelMappingFile

\* C27: when the node Backprop is called on does not need a gradient and an
\* input selected by the partition flags does, the call raises LogicError and
\* invokes neither LazyZeroGradient nor BackpropTo, so the gradient state of
\* that input is what it was before the call.
C27_FlagCheckedBeforeInput ==
    (Called /\ ~needsGradient[call.node] /\ SelectedPositions # {}) =>
        /\ err = "LogicError"
        /\ \A k \in LogPos : log[k].op \notin {"LazyZeroGradient", "BackpropTo"}
        /\ \A i \in SelectedPositions :
            LET child == inputs[call.node][i]
            IN  /\ gradInitBy[child] = call.by[child]
                /\ gradBuf[child] = call.buf[child]
                /\ gradVal[child] = call.val[child]
                /\ zeroFills[child] = call.zeroFills[child]

\* C27 witness: a per-time-step call on a node without the flag skipped its
\* first input and was rejected at the second, whose gradient was and stays
\* uninitialised
C27_Witness ==
    /\ Called
    /\ ~needsGradient[call.node]
    /\ call.fr = OneStep
    /\ SelectedPositions = {2}
    /\ err = "LogicError"
    /\ gradInitBy[inputs[call.node][2]] = NoNode

(***************************************************************************)
(* Properties of the two paths of Unpack.                                  *)
(***************************************************************************)
\* every parallel slot of the layout holds exactly one sequence, which spans
\* all time steps
EverySlotOneFullSequence(layout) ==
    \A s \in 0..(layout.S - 1) :
        /\ Cardinality({q \in RealPositions(layout) : layout.seqs[q].s = s}) = 1
        /\ \E q \in RealPositions(layout) :
               /\ layout.seqs[q].s = s
               /\ layout.seqs[q].tBegin <= 0
               /\ layout.seqs[q].tEnd >= layout.T

\* the number of columns of a matrix
NumColsOf(m) == Cardinality(DOMAIN m)

\* the number of columns a shape of the two appended axes describes
NumColsIn(shape) == IF shape = <<>> THEN 1 ELSE shape[1] * shape[2]

\* C25: Unpack returns a view of the packed storage exactly when the layout is
\* absent, has at most one time step, has at most one sequence, or, in
\* batch-major order, every slot holds exactly one sequence of full length;
\* otherwise it scatters.
C25_FastPathCondition ==
    Unpacked =>
        (uOut[1].aliased <=>
            \/ uArgs.layout = NoLayout
            \/ GetNumTimeSteps(uArgs.layout) <= 1
            \/ GetNumSequences(uArgs.layout) <= 1
            \/ uArgs.batchMajor /\ EverySlotOneFullSequence(uArgs.layout))

\* C26 as stated: in the scatter path the destination buffer, and the gap
\* validity mask, have numParallelSequences * numTimeSteps columns.
C26_WidthIsSlotsTimesSteps ==
    (Unpacked /\ ~uOut[1].aliased) =>
        LET width == GetNumParallelSequences(uArgs.layout) * GetNumTimeSteps(uArgs.layout)
        IN  /\ DOMAIN uOut[1].data = 0..(width - 1)
            /\ uArgs.gapPadValue # <<>> =>
                   DOMAIN ScatterIndices(uArgs.layout, uArgs.batchMajor, TRUE).mask = 0..(width - 1)

\* C26: in the scatter path the destination buffer has numSequences *
\* numTimeSteps columns, numSequences counting the sequences of the table that
\* are not gaps, and the gap validity mask built for a gap pad value covers
\* exactly these columns.
C26_WidthIsSequencesTimesSteps ==
    (Unpacked /\ ~uOut[1].aliased) =>
        LET width == GetNumSequences(uArgs.layout) * GetNumTimeSteps(uArgs.layout)
        IN  /\ DOMAIN uOut[1].data = 0..(width - 1)
            /\ uArgs.gapPadValue # <<>> =>
                   DOMAIN ScatterIndices(uArgs.layout, uArgs.batchMajor, TRUE).mask = 0..(width - 1)

\* C26 witness: a scatter with a gap pad value of a layout of two slots that
\* holds three sequences, into six columns
C26_Witness ==
    /\ Unpacked /\ ~uOut[1].aliased
    /\ uArgs.gapPadValue # <<>>
    /\ GetNumParallelSequences(uArgs.layout) = 2
    /\ GetNumSequences(uArgs.layout) = 3
    /\ NumColsOf(uOut[1].data) = 6

\* C29: the matrix Unpack returns has as many columns as the returned shape
\* describes, in the scatter path and in the fast path alike.
C29_ColumnsMatchShape ==
    Unpacked => NumColsOf(uOut[1].data) = NumColsIn(uOut[1].shape)

\* the scatter path alone
ScatterPathCorrect ==
    (Unpacked /\ ~UnpackFastPath(uArgs.layout, uArgs.batchMajor)) =>
        /\ RealCellsKept
        /\ uArgs.gapPadValue # <<>> => GapCellsPadded

====
